---------------------------- MODULE Spec2Model ----------------------------
(***************************************************************************)
(* A model of emvsign: the APDU transport (src/src/exchange.rs), the       *)
(* BER-TLV decoder (src/src/tlv), the DOL encoder (src/src/tlv/dol.rs) and *)
(* the certificate chain (src/src/crypto/chain.rs).                        *)
(*                                                                         *)
(* Several specifications share the module:                                *)
(*   Spec        exchange() run by callers that share one card             *)
(*   SpecEncode  ADPUCommand::encode applied to a bounded set of commands  *)
(*   SpecTlv     read_tl / read_field applied to a bounded set of buffers  *)
(*   SpecValue   the value decoders applied to bounded sets of values      *)
(*   SpecPath    get_path applied to a bounded set of templates and paths  *)
(*   SpecDol     Dol::encode applied to a bounded set of DOLs and states   *)
(*   SpecChain   date_ym and the two from_options applied to certificates  *)
(* Bytes are naturals in 0..255; a byte string is a sequence of bytes.     *)
(***************************************************************************)
EXTENDS Naturals, Sequences, FiniteSets, TLC

VARIABLES
    \* ---- exchange(): one entry per caller
    pc,         \* where each caller is inside exchange()
    command,    \* the `command` argument of each caller
    sw1,        \* local sw1
    sw2,        \* local sw2
    response,   \* local response (Vec<u8>)
    result,     \* what exchange() returned (or that it panicked)
    txOwner,    \* the caller holding the card transaction (0: nobody)
    cardLeft,   \* how many more transmissions the card will answer
    wire,       \* history: every APDU transmitted, its sender, and who held
                \* the transaction then
    rcvd,       \* history: the responses each caller's transmits returned
    \* ---- ADPUCommand::encode as a pure function
    encCmd,     \* the command handed to encode
    encOut,     \* what encode returned
    \* ---- read_tl / read_field as pure functions
    raw,        \* the input buffer
    tlvOp,      \* which decoder ran on raw ("none" before)
    tlvOut,     \* what it returned
    overflow_checks,  \* whether the build checks integer overflow (it does
                      \* in the dev profile and does not in release)
    \* ---- the other pure functions (get_path, Dol::encode, the certificate
    \* chain), one call at a time
    args,       \* the arguments of the call
    called,     \* which function ran on args ("none" before)
    ret,        \* what it returned
    \* ---- the functions that drive a card session (pse.rs,
    \* processing_options.rs, main.rs), one step at a time
    frame,      \* the locals of the running function
    apdus,      \* history: every operation issued on the card handle
    outcome     \* what the function returned ("running" before)

exchangeVars == <<pc, command, sw1, sw2, response, result, txOwner, cardLeft, wire, rcvd>>
encodeVars == <<encCmd, encOut>>
tlvVars == <<raw, tlvOp, tlvOut, overflow_checks>>
callVars == <<args, called, ret>>
sessionVars == <<frame, apdus, outcome>>
vars == <<exchangeVars, encodeVars, tlvVars, callVars, sessionVars>>

(***************************************************************************)
(* Bounds of the model.                                                    *)
(***************************************************************************)
\* longest short data field enumerated exhaustively for encode
MaxData == 2
\* transmissions the card answers when one caller uses it
MaxTx == 4
\* transmissions the card answers when two callers share it
MaxSharedTx == 2
\* longest buffer enumerated exhaustively for the TLV decoder
MaxLen == 4
MaxPath == 3
MaxEntries == 2

(***************************************************************************)
(* Byte strings.                                                           *)
(***************************************************************************)
\* all sequences over S of length 0..n
SeqsUpTo(S, n) == UNION {[1..k -> S] : k \in 0..n}

\* n bytes, all equal to b
Fill(n, b) == [i \in 1..n |-> b]

\* `x as u8`
AsU8(x) == x % 256

\* `(x as u16).to_be_bytes()`
U16BE(x) == <<(x % 65536) \div 256, x % 256>>

\* s[from..] of a Rust slice (0-based `from`), defined for from <= Len(s)
SliceFrom(s, from) == SubSeq(s, from + 1, Len(s))

\* s[..to] of a Rust slice, defined for to <= Len(s)
SliceTo(s, to) == SubSeq(s, 1, to)

(***************************************************************************)
(* ADPUCommand::encode (exchange.rs 20-52).                                *)
(***************************************************************************)
None == [some |-> FALSE, bytes |-> <<>>]
Some(b) == [some |-> TRUE, bytes |-> b]

ADPUCommand(cla, ins, p1, p2, data, ne) ==
    [cla |-> cla, ins |-> ins, p1 |-> p1, p2 |-> p2, data |-> data, ne |-> ne]

\* EncodeLc with the short form taken up to 256 bytes (256 as u8 is 0)
EncodeLc_ShortTo256(nc) ==
    IF nc = 0 THEN <<>>
    ELSE IF nc <= 256 THEN <<AsU8(nc)>>
    ELSE <<0>> \o U16BE(nc)

\* the Lc field pushed for a data field of nc <= 65535 bytes (24-31)
EncodeLc(nc) ==
    IF nc = 0 THEN <<>>
    ELSE IF nc <= 255 THEN <<AsU8(nc)>>
    ELSE <<0>> \o U16BE(nc)

\* EncodeLe without the 00 that marks an extended Le after a short Lc
EncodeLe_NoExtendedMark(nc, ne) ==
    IF ne = 0 THEN <<>>
    ELSE IF ne <= 256 THEN <<AsU8(ne)>>
    ELSE IF ne <= 65536 THEN U16BE(ne)
    ELSE <<>>

\* the Le field pushed for ne, after a data field of nc bytes (38-49);
\* an ne above 65536 matches no branch and pushes nothing
EncodeLe(nc, ne) ==
    IF ne = 0 THEN <<>>
    ELSE IF ne <= 256 THEN <<AsU8(ne)>>
    ELSE IF ne <= 65536 THEN (IF nc <= 255 THEN <<0>> ELSE <<>>) \o U16BE(ne)
    ELSE <<>>

encode(c) ==
    LET nc == Len(c.data)
    IN  IF nc > 65535
        THEN None
        ELSE Some(<<c.cla, c.ins, c.p1, c.p2>> \o EncodeLc(nc) \o c.data
                      \o EncodeLe(nc, c.ne))

\* ADPUCommand::select (54-63)
select(aid) == ADPUCommand(0, 164, 4, 0, aid, 256)

\* ADPUCommand::read_record (65-74); sfi << 3 in u8, | 0x04 (bit 2 is clear)
read_record(sfi, record) ==
    ADPUCommand(0, 178, record, AsU8(sfi * 8) + 4, <<>>, 256)

(***************************************************************************)
(* SpecEncode: encode applied once to a command drawn from EncCommands.    *)
(***************************************************************************)
EncHeaders == {<<0, 164, 4, 0>>, <<0, 178, 1, 12>>, <<128, 168, 0, 0>>, <<0, 164, 0, 0>>}

\* data fields: every string over {0, 1} up to MaxData bytes, and strings
\* at the lengths where the Lc form changes or encoding stops
EncShortData == SeqsUpTo({0, 1}, MaxData)
EncLongData ==
    {Fill(n, 0) : n \in {255, 256, 257, 65535, 65536, 65537}}
        \cup {Fill(256, 1), [i \in 1..256 |-> IF i = 256 THEN 1 ELSE 0]}

\* expected lengths around the points where the Le form changes; ne is a u32
EncNe == {0, 1, 2, 255, 256, 257, 258, 511, 65535, 65536, 65537, 16777216}

EncCommands ==
    {ADPUCommand(h[1], h[2], h[3], h[4], d, ne) :
        h \in EncHeaders, d \in EncShortData, ne \in EncNe}
    \cup {ADPUCommand(0, 164, 4, 0, d, ne) : d \in EncLongData, ne \in EncNe}

EncNotRun == [some |-> FALSE, bytes |-> <<255, 255>>]

InitEncode ==
    /\ encCmd \in EncCommands
    /\ encOut = EncNotRun

Encode ==
    /\ encOut = EncNotRun
    /\ encOut' = encode(encCmd)
    /\ UNCHANGED <<encCmd, exchangeVars, tlvVars, callVars, sessionVars>>


(***************************************************************************)
(* exchange (exchange.rs 88-148), run by callers sharing one card.         *)
(*                                                                         *)
(* pc: "off" (never calls), "idle" (about to call), "first" (transaction   *)
(* held, initial transmit next), "resize" (at `if sw1 == 0x6c`), "loop"    *)
(* (at `while sw1 == 0x61`), "done" (returned or unwound).                 *)
(***************************************************************************)
Callers == {1, 2}

Result(kind, msg, body, status) ==
    [kind |-> kind, msg |-> msg, body |-> body, status |-> status]
NoResult == Result("none", "", <<>>, 0)
Ok(body, status) == Result("ok", "", body, status)
Err(msg) == Result("err", msg, <<>>, 0)
\* an index or subtraction out of range: the thread unwinds, no value returned
Panicked == Result("panic", "", <<>>, 0)

\* what the card may answer: a body followed by SW1 SW2, or fewer than 2 bytes
CardBodies == {<<>>, <<1>>, <<2, 3>>}
CardStatus == {<<97, 16>>, <<97, 0>>, <<108, 16>>, <<108, 0>>, <<144, 0>>, <<106, 131>>}
CardResponses ==
    {b \o s : b \in CardBodies, s \in CardStatus} \cup {<<>>, <<97>>}

\* tx.transmit(apdu, &mut recieve_buffer): Ok(data) or Err; the card answers
\* only while cardLeft > 0 (then it is gone and transmit fails); a response
\* that does not fit the 256-byte receive_buffer (89) is an Err too
TransmitOutcomes ==
    {[ok |-> FALSE, data |-> <<>>]}
        \cup (IF cardLeft > 0
              THEN {[ok |-> Len(d) <= 256, data |-> d] : d \in CardResponses}
              ELSE {})

\* the caller leaves exchange with `res`; dropping `tx` ends the transaction
Leave(p, res) ==
    /\ pc' = [pc EXCEPT ![p] = "done"]
    /\ result' = [result EXCEPT ![p] = res]
    /\ txOwner' = IF txOwner = p THEN 0 ELSE txOwner

\* the bytes go out on the wire and the card (if it answers) spends a response
Sent(p, apdu, out) ==
    /\ wire' = Append(wire, [by |-> p, apdu |-> apdu, holder |-> txOwner])
    /\ cardLeft' = IF out.ok THEN cardLeft - 1 ELSE cardLeft
    /\ rcvd' = IF out.ok THEN [rcvd EXCEPT ![p] = Append(@, out.data)] ELSE rcvd

\* sw1 = data[len-2]; sw2 = data[len-1]; response.extend(&data[..len-2])
TakeResponse(p, data, next) ==
    /\ sw1' = [sw1 EXCEPT ![p] = data[Len(data) - 1]]
    /\ sw2' = [sw2 EXCEPT ![p] = data[Len(data)]]
    /\ response' = [response EXCEPT ![p] = @ \o SliceTo(data, Len(data) - 2)]
    /\ pc' = [pc EXCEPT ![p] = next]
    /\ UNCHANGED <<result, txOwner>>

\* Begin that does not wait for the transaction another caller holds
Begin_WithoutWaiting(p) ==
    /\ pc[p] = "idle"
    /\ txOwner' = p
    /\ pc' = [pc EXCEPT ![p] = "first"]
    /\ UNCHANGED <<command, sw1, sw2, response, result, cardLeft, wire, rcvd, encodeVars, tlvVars, callVars, sessionVars>>

\* 93: card.transaction() succeeds once nobody else holds the transaction
Begin(p) ==
    /\ pc[p] = "idle"
    /\ txOwner = 0
    /\ txOwner' = p
    /\ pc' = [pc EXCEPT ![p] = "first"]
    /\ UNCHANGED <<command, sw1, sw2, response, result, cardLeft, wire, rcvd, encodeVars, tlvVars, callVars, sessionVars>>

\* 93: card.transaction() fails: `?` returns before anything is sent
BeginFails(p) ==
    /\ pc[p] = "idle"
    /\ Leave(p, Err("Failed to create transaction"))
    /\ UNCHANGED <<command, sw1, sw2, response, cardLeft, wire, rcvd, encodeVars, tlvVars, callVars, sessionVars>>

\* 94-109: encode, transmit, check the length, take SW1 SW2 and the body
First(p) ==
    /\ pc[p] = "first"
    /\ LET enc == encode(command[p])
       IN  IF ~enc.some
           THEN /\ Leave(p, Err("Could not encode command"))
                /\ UNCHANGED <<sw1, sw2, response, cardLeft, wire, rcvd>>
           ELSE \E out \in TransmitOutcomes :
                   /\ Sent(p, enc.bytes, out)
                   /\ IF ~out.ok
                      THEN /\ Leave(p, Err("Failed to recieve from card"))
                           /\ UNCHANGED <<sw1, sw2, response>>
                      ELSE IF Len(out.data) < 2
                      THEN /\ Leave(p, Err("Received message too short"))
                           /\ UNCHANGED <<sw1, sw2, response>>
                      ELSE TakeResponse(p, out.data, "resize")
    /\ UNCHANGED <<command, encodeVars, tlvVars, callVars, sessionVars>>

\* modified_command that leaves ne as it was
modified_command_SameNe(p) == command[p]

\* 113-114: a copy of the command with ne = sw2
modified_command(p) == [command[p] EXCEPT !.ne = sw2[p]]

\* 111-127: sw1 == 0x6c: the command again with ne = sw2; no length check
Reissue(p) ==
    /\ pc[p] = "resize"
    /\ sw1[p] = 108
    /\ LET enc == encode(modified_command(p))
       IN  IF ~enc.some
           THEN /\ Leave(p, Err("Could not encode command"))
                /\ UNCHANGED <<sw1, sw2, response, cardLeft, wire, rcvd>>
           ELSE \E out \in TransmitOutcomes :
                   /\ Sent(p, enc.bytes, out)
                   /\ IF ~out.ok
                      THEN /\ Leave(p, Err("Failed to recieve from card after reducing size"))
                           /\ UNCHANGED <<sw1, sw2, response>>
                      ELSE IF Len(out.data) < 2
                      THEN /\ Leave(p, Panicked)
                           /\ UNCHANGED <<sw1, sw2, response>>
                      ELSE TakeResponse(p, out.data, "loop")
    /\ UNCHANGED <<command, encodeVars, tlvVars, callVars, sessionVars>>

\* 111: sw1 != 0x6c: on to the while loop
NoReissue(p) ==
    /\ pc[p] = "resize"
    /\ sw1[p] # 108
    /\ pc' = [pc EXCEPT ![p] = "loop"]
    /\ UNCHANGED <<command, sw1, sw2, response, result, txOwner, cardLeft, wire, rcvd, encodeVars, tlvVars, callVars, sessionVars>>

\* continuation_command asking for sw1 bytes
continuation_command_Sw1(p) == <<0, 192, 0, 0, sw1[p]>>

\* 131-137: GET RESPONSE, P3 = sw2
continuation_command(p) == <<0, 192, 0, 0, sw2[p]>>

\* 129-145: sw1 == 0x61: GET RESPONSE with P3 = sw2; no length check
Continue(p) ==
    /\ pc[p] = "loop"
    /\ sw1[p] = 97
    /\ LET apdu == continuation_command(p)
       IN  \E out \in TransmitOutcomes :
               /\ Sent(p, apdu, out)
               /\ IF ~out.ok
                  THEN /\ Leave(p, Err("Failed to recieve from card while requesting continuation data"))
                       /\ UNCHANGED <<sw1, sw2, response>>
                  ELSE IF Len(out.data) < 2
                  THEN /\ Leave(p, Panicked)
                       /\ UNCHANGED <<sw1, sw2, response>>
                  ELSE TakeResponse(p, out.data, "loop")
    /\ UNCHANGED <<command, encodeVars, tlvVars, callVars, sessionVars>>

\* a return that does not look at sw1
Return_Anyway(p) ==
    /\ pc[p] = "loop"
    /\ Leave(p, Ok(response[p], sw1[p] * 256 + sw2[p]))
    /\ UNCHANGED <<command, sw1, sw2, response, cardLeft, wire, rcvd, encodeVars, tlvVars, callVars, sessionVars>>

\* 147: sw1 != 0x61: Ok((response, sw1 << 8 | sw2))
Return(p) ==
    /\ pc[p] = "loop"
    /\ sw1[p] # 97
    /\ Leave(p, Ok(response[p], sw1[p] * 256 + sw2[p]))
    /\ UNCHANGED <<command, sw1, sw2, response, cardLeft, wire, rcvd, encodeVars, tlvVars, callVars, sessionVars>>

\* commands whose exchange reaches the card
NormalCommands == {select(<<160, 0>>), read_record(1, 1)}
\* a data field one byte too long, and an expected length one too large
OddCommands ==
    {ADPUCommand(0, 164, 4, 0, Fill(65536, 0), 256),
     ADPUCommand(0, 178, 1, 12, <<>>, 65537)}

InitExchange ==
    /\ \/ /\ pc = [p \in Callers |-> IF p = 1 THEN "idle" ELSE "off"]
          /\ \E c \in NormalCommands \cup OddCommands :
                command = [p \in Callers |-> IF p = 1 THEN c ELSE read_record(1, 1)]
          /\ cardLeft = MaxTx
       \/ /\ pc = [p \in Callers |-> "idle"]
          /\ command \in [Callers -> NormalCommands]
          /\ cardLeft = MaxSharedTx
    /\ sw1 = [p \in Callers |-> 0]
    /\ sw2 = [p \in Callers |-> 0]
    /\ response = [p \in Callers |-> <<>>]
    /\ result = [p \in Callers |-> NoResult]
    /\ txOwner = 0
    /\ wire = <<>>
    /\ rcvd = [p \in Callers |-> <<>>]

\* the variables of a part that a specification does not exercise
IdleExchange ==
    /\ pc = [p \in Callers |-> "off"]
    /\ command = [p \in Callers |-> read_record(1, 1)]
    /\ sw1 = [p \in Callers |-> 0]
    /\ sw2 = [p \in Callers |-> 0]
    /\ response = [p \in Callers |-> <<>>]
    /\ result = [p \in Callers |-> NoResult]
    /\ txOwner = 0
    /\ cardLeft = 0
    /\ wire = <<>>
    /\ rcvd = [p \in Callers |-> <<>>]

IdleEncode ==
    /\ encCmd = read_record(1, 1)
    /\ encOut = EncNotRun

IdleCall ==
    /\ args = <<>>
    /\ called = "none"
    /\ ret = <<>>

\* what a function of a card session returns: anyhow::Result<T>, or a panic
SessionOk(value) == [kind |-> "ok", value |-> value, msg |-> "", status |-> 0]
SessionErr(msg, status) == [kind |-> "err", value |-> <<>>, msg |-> msg, status |-> status]
SessionPanic == [kind |-> "panic", value |-> <<>>, msg |-> "", status |-> 0]
SessionNone == [kind |-> "none", value |-> <<>>, msg |-> "", status |-> 0]

IdleSession ==
    /\ frame = <<>>
    /\ apdus = <<>>
    /\ outcome = SessionNone

IdleTlv ==
    /\ raw = <<>>
    /\ tlvOp = "none"
    /\ tlvOut = <<>>
    /\ overflow_checks = FALSE

(***************************************************************************)
(* The BER-TLV decoder (tlv/decoders.rs).                                  *)
(*                                                                         *)
(* A decoder returns kind "ok" with its value, kind "err" with a           *)
(* DecodeError, or kind "panic" when a slice or index is out of range.     *)
(***************************************************************************)
DecodeError(e, a, b) == [e |-> e, a |-> a, b |-> b, st |-> "", inner |-> <<>>]
NoError == DecodeError("", 0, 0)
MessageTooShort(needed, got) == DecodeError("MessageTooShort", needed, got)
LengthTooLong(max, got) == DecodeError("LengthTooLong", max, got)
BadBcd(digit) == DecodeError("BadBcd", digit, 0)
UnsupportedChar(string_type, ch) ==
    [e |-> "UnsupportedChar", a |-> ch, b |-> 0, st |-> string_type, inner |-> <<>>]
NoSuchMember(tag) == DecodeError("NoSuchMember", tag, 0)
NoPathRequested == DecodeError("NoPathRequested", 0, 0)
WrongType(tag, wanted) ==
    [e |-> "WrongType", a |-> tag, b |-> 0, st |-> wanted, inner |-> <<>>]
\* a wrapper that keeps only the innermost tag
TemplateInternal_Innermost(tag, err) ==
    IF err.e = "TemplateInternal" THEN err
    ELSE [e |-> "TemplateInternal", a |-> tag, b |-> 0, st |-> "", inner |-> <<err>>]

TemplateInternal(tag, err) ==
    [e |-> "TemplateInternal", a |-> tag, b |-> 0, st |-> "", inner |-> <<err>>]

\* size_of::<usize>() on the 64-bit targets the tool is built for
UsizeBytes == 8

\* left_pad_slice::<LEN> (17-21), for slices of at most LEN bytes
left_pad_slice(LEN, slice) == Fill(LEN - Len(slice), 0) \o slice

\* u16::from_be_bytes / usize::from_be_bytes
RECURSIVE from_be_bytes(_)
from_be_bytes(bytes) ==
    IF bytes = <<>> THEN 0
    ELSE from_be_bytes(SliceTo(bytes, Len(bytes) - 1)) * 256 + bytes[Len(bytes)]

TlOk(tag, len, tl_len) ==
    [kind |-> "ok", tag |-> tag, len |-> len, tl_len |-> tl_len, err |-> NoError]
TlErr(err) == [kind |-> "err", tag |-> 0, len |-> 0, tl_len |-> 0, err |-> err]
TlPanic == [kind |-> "panic", tag |-> 0, len |-> 0, tl_len |-> 0, err |-> NoError]

\* a read_tl that takes every tag for a one-byte tag
TagLen_OneByte(first) == 1

\* 32: a first byte with its low five bits set announces a two-byte tag
TagLen(first) == IF first % 32 = 31 THEN 2 ELSE 1

\* a read_tl that only asks for the tag bytes to be present
NoLengthByte_TagOnly(buf, tag_len) == Len(buf) < tag_len

\* 35: the buffer ends before the first length byte
NoLengthByte(buf, tag_len) == Len(buf) < tag_len + 1

\* 48: more length bytes than read_tl accepts
TooManyLengthBytes(num_bytes) == num_bytes > 4

\* read_tl (25-70)
read_tl(buf) ==
    IF buf = <<>>
    THEN TlErr(MessageTooShort(2, Len(buf)))
    ELSE
    LET tag_len == TagLen(buf[1])
    IN  IF NoLengthByte(buf, tag_len)
        THEN TlErr(MessageTooShort(tag_len + 1, Len(buf)))
        ELSE IF tag_len > Len(buf)
        THEN TlPanic                                  \* split_at out of range
        ELSE
        LET tag_bytes == SliceTo(buf, tag_len)
            length_bytes == SliceFrom(buf, tag_len)
            tag == from_be_bytes(left_pad_slice(2, tag_bytes))
        IN  IF length_bytes = <<>>
            THEN TlPanic                              \* unreachable!()
            ELSE
            LET len_len_byte == Head(length_bytes)
                rest == Tail(length_bytes)
                num_bytes == len_len_byte % 128
            IN  IF len_len_byte >= 128
                THEN IF TooManyLengthBytes(num_bytes)
                     THEN TlErr(LengthTooLong(4, num_bytes))
                     ELSE IF Len(rest) < num_bytes
                     THEN TlErr(MessageTooShort(tag_len + 1 + num_bytes, Len(buf)))
                     ELSE IF num_bytes > UsizeBytes
                     THEN TlPanic                     \* left_pad_slice underflow
                     ELSE TlOk(tag,
                               from_be_bytes(left_pad_slice(UsizeBytes,
                                                            SliceTo(rest, num_bytes))),
                               tag_len + num_bytes + 1)
                ELSE TlOk(tag, len_len_byte, tag_len + 1)

\* ELEMENTS.get(&tag).typ, Binary when the tag is not in the table (89-92);
\* the table's entries that are not Binary (elements.rs)
ElementTyp(tag) ==
    CASE tag = 66 -> "Numeric"                        \* 0x42
      [] tag = 80 -> "AlphanumericSpecial"            \* 0x50
      [] tag = 90 -> "DigitString"                    \* 0x5a CompressedNumeric
      [] tag \in {97, 111, 112, 113, 114, 115, 165, 48908} -> "Template"
                                   \* 0x61 0x6f 0x70 0x71 0x72 0x73 0xa5 0xbf0c
      [] tag = 24365 -> "Alphanumeric"                \* 0x5f2d
      [] tag \in {24405, 24406} -> "Alphabetic"       \* 0x5f55 0x5f56
      [] tag = 40722 -> "AlphanumericSpecial"         \* 0x9f12
      [] OTHER -> "Binary"

\* a Value: the variant and its payload (the string or bytes or digits, the
\* number, the fields of a template, the entries of a DOL)
Value(typ, bytes, num, fields) ==
    [typ |-> typ, bytes |-> bytes, num |-> num, fields |-> fields]
NoValue == Value("", <<>>, <<>>, <<>>)

DecOk(v) == [kind |-> "ok", val |-> v, err |-> NoError]
DecErr(err) == [kind |-> "err", val |-> NoValue, err |-> err]
DecPanic == [kind |-> "panic", val |-> NoValue, err |-> NoError]

\* the bytes a predicate accepts
is_ascii_alphabetic == (65..90) \cup (97..122)
is_ascii_alphanumeric == is_ascii_alphabetic \cup (48..57)

\* the first element of bytes outside good, as a 0- or 1-element sequence
FirstBad(bytes, good) ==
    LET bads == SelectSeq(bytes, LAMBDA b : b \notin good)
    IN  IF bads = <<>> THEN <<>> ELSE <<bads[1]>>

\* restricted_charset (103-113)
restricted_charset(bytes, predicate, string_type) ==
    LET bad == FirstBad(bytes, predicate)
    IN  IF bad # <<>> THEN DecErr(UnsupportedChar(string_type, bad[1]))
        ELSE DecOk(Value(string_type, bytes, <<>>, <<>>))

\* alphabetic (115-117)
alphabetic(bytes) == restricted_charset(bytes, is_ascii_alphabetic, "Alphabetic")

\* alphanumeric (119-125)
alphanumeric(bytes) == restricted_charset(bytes, is_ascii_alphanumeric, "Alphanumeric")

\* an alphanumeric_special that lets DEL through
alphanumeric_special_NoDel(bytes) ==
    LET bad == FirstBad(bytes, 32..255)
    IN  IF bad # <<>> THEN DecErr(UnsupportedChar("AlphanumericSpecial", bad[1]))
        ELSE DecOk(Value("AlphanumericSpecial", bytes, <<>>, <<>>))

\* alphanumeric_special (127-147): only b < 0x20 and b == 0x7f are refused
alphanumeric_special(bytes) ==
    LET bad == FirstBad(bytes, (32..255) \ {127})
    IN  IF bad # <<>> THEN DecErr(UnsupportedChar("AlphanumericSpecial", bad[1]))
        ELSE DecOk(Value("AlphanumericSpecial", bytes, <<>>, <<>>))

\* binary (149-151)
binary(bytes) == DecOk(Value("Binary", bytes, <<>>, <<>>))

\* flat_map(|byte| [byte >> 4, byte & 0x0f])
RECURSIVE Nibbles(_)
Nibbles(bytes) ==
    IF bytes = <<>> THEN <<>>
    ELSE <<Head(bytes) \div 16, Head(bytes) % 16>> \o Nibbles(Tail(bytes))

\* a digit loop that does not stop at 0xF
TakeWhileNotF_Whole(ds) == ds

\* take_while(|&digit| digit != 0x0f)
RECURSIVE TakeWhileNotF(_)
TakeWhileNotF(ds) ==
    IF ds = <<>> \/ Head(ds) = 15 THEN <<>>
    ELSE <<Head(ds)>> \o TakeWhileNotF(Tail(ds))

\* compressed_numeric (153-173)
compressed_numeric(bytes) ==
    IF Len(bytes) > 10 THEN DecErr(LengthTooLong(10, Len(bytes)))
    ELSE LET ds == TakeWhileNotF(Nibbles(bytes))
             bad == FirstBad(ds, 0..9)
         IN  IF bad # <<>> THEN DecErr(BadBcd(bad[1]))
             ELSE DecOk(Value("DigitString", ds, <<>>, <<>>))

\* a u128 is held as U128Limbs limbs of LimbBits bits, lowest first
U128Limbs == 8
LimbBase == 65536

U128Zero == [i \in 1..U128Limbs |-> 0]

\* limbs * k + carry, as the limbs and, last, the carry out of the top limb
RECURSIVE MulAdd(_, _, _)
MulAdd(limbs, k, carry) ==
    IF limbs = <<>> THEN <<carry>>
    ELSE LET v == Head(limbs) * k + carry
         IN  <<v % LimbBase>> \o MulAdd(Tail(limbs), k, v \div LimbBase)

\* try_fold(0, ..) (179-185): acc * 10 + digit in u128 arithmetic, digit by
\* digit; a digit above 9 ends it with BadBcd; an overflow panics in a build
\* with overflow checks and wraps around in one without
RECURSIVE FoldDecimal(_, _)
FoldDecimal(acc, ds) ==
    IF ds = <<>> THEN DecOk(Value("Numeric", <<>>, acc, <<>>))
    ELSE IF Head(ds) > 9 THEN DecErr(BadBcd(Head(ds)))
    ELSE LET r == MulAdd(acc, 10, Head(ds))
         IN  IF r[U128Limbs + 1] # 0 /\ overflow_checks THEN DecPanic
             ELSE FoldDecimal(SliceTo(r, U128Limbs), Tail(ds))

\* numeric (175-186)
numeric(bytes) == FoldDecimal(U128Zero, Nibbles(bytes))

\* DOLEntry and Dol (tlv/dol.rs 5-15)
DOLEntry(tag, size) == [tag |-> tag, size |-> size]
Dol(entries, size) == [entries |-> entries, size |-> size]

\* Dol::try_from (tlv/dol.rs 111-129): the entries read_tl by read_tl, and
\* the total of their sizes
RECURSIVE DolTryFrom(_, _, _)
DolTryFrom(value, entries, total_len) ==
    IF value = <<>>
    THEN [kind |-> "ok", dol |-> Dol(entries, total_len), err |-> NoError]
    ELSE LET tl == read_tl(value)
         IN  IF tl.kind = "err"
             THEN [kind |-> "err", dol |-> Dol(<<>>, 0), err |-> tl.err]
             ELSE IF tl.kind = "panic" \/ tl.tl_len > Len(value)
             THEN [kind |-> "panic", dol |-> Dol(<<>>, 0), err |-> NoError]
             ELSE DolTryFrom(SliceFrom(value, tl.tl_len),
                             Append(entries, DOLEntry(tl.tag, tl.len)),
                             total_len + tl.len)

\* dol (198-200); the Dol is the one element of the value's fields
dol(bytes) ==
    LET d == DolTryFrom(bytes, <<>>, 0)
    IN  IF d.kind = "err" THEN DecErr(d.err)
        ELSE IF d.kind = "panic" THEN DecPanic
        ELSE DecOk(Value("Dol", <<>>, <<>>, <<d.dol>>))

\* a Field {tag, value}; tl_len and len record, beside it, what read_tl
\* returned for the field: the bytes of its prefix and its declared length
Field(tag, value, tl_len, len) ==
    [tag |-> tag, value |-> value, tl_len |-> tl_len, len |-> len]

TlvOk(tag, consumed, tl_len, len, value) ==
    [kind |-> "ok", tag |-> tag, consumed |-> consumed, tl_len |-> tl_len,
     len |-> len, val |-> value, err |-> NoError]
TlvErr(err) ==
    [kind |-> "err", tag |-> 0, consumed |-> 0, tl_len |-> 0, len |-> 0,
     val |-> NoValue, err |-> err]
TlvPanic ==
    [kind |-> "panic", tag |-> 0, consumed |-> 0, tl_len |-> 0, len |-> 0,
     val |-> NoValue, err |-> NoError]

\* a read_tlv that reports one byte more than the field holds
Consumed_OneMore(tl_len, len) == tl_len + len + 1

\* the byte count read_tlv returns for a field (95)
Consumed(tl_len, len) == tl_len + len

RECURSIVE read_tlv(_), template(_), decode_with_type(_, _)

\* decode_with_type (72-85)
decode_with_type(typ, bytes) ==
    CASE typ = "Alphabetic" -> alphabetic(bytes)
      [] typ = "Alphanumeric" -> alphanumeric(bytes)
      [] typ = "AlphanumericSpecial" -> alphanumeric_special(bytes)
      [] typ = "Binary" -> binary(bytes)
      [] typ = "DigitString" -> compressed_numeric(bytes)
      [] typ = "Numeric" -> numeric(bytes)
      [] typ = "Template" -> template(bytes)
      [] typ = "Dol" -> dol(bytes)

\* read_tlv (87-96); `&raw[tl_len..][..len]` panics when fewer than len
\* bytes follow the prefix
read_tlv(buf) ==
    LET tl == read_tl(buf)
    IN  IF tl.kind = "err" THEN TlvErr(tl.err)
        ELSE IF tl.kind = "panic" \/ tl.tl_len > Len(buf) THEN TlvPanic
        ELSE LET after == SliceFrom(buf, tl.tl_len)
             IN  IF tl.len > Len(after) THEN TlvPanic
                 ELSE LET value == decode_with_type(ElementTyp(tl.tag),
                                                    SliceTo(after, tl.len))
                      IN  IF value.kind = "err"
                          THEN TlvErr(TemplateInternal(tl.tag, value.err))
                          ELSE IF value.kind = "panic" THEN TlvPanic
                          ELSE TlvOk(tl.tag, Consumed(tl.tl_len, tl.len),
                                     tl.tl_len, tl.len, value.val)

\* template (188-196); `&raw[len..]` panics when len is past the end
template(buf) ==
    IF buf = <<>> THEN DecOk(Value("Template", <<>>, <<>>, <<>>))
    ELSE LET f == read_tlv(buf)
         IN  IF f.kind = "err" THEN DecErr(f.err)
             ELSE IF f.kind = "panic" \/ f.consumed > Len(buf) THEN DecPanic
             ELSE LET more == template(SliceFrom(buf, f.consumed))
                  IN  IF more.kind # "ok" THEN more
                      ELSE DecOk(Value("Template", <<>>, <<>>,
                                       <<Field(f.tag, f.val, f.tl_len, f.len)>>
                                           \o more.val.fields))

\* read_field (98-101)
read_field(buf) ==
    LET f == read_tlv(buf)
    IN  IF f.kind = "ok"
        THEN [kind |-> "ok", field |-> Field(f.tag, f.val, f.tl_len, f.len),
              err |-> NoError]
        ELSE [kind |-> f.kind, field |-> Field(0, NoValue, 0, 0), err |-> f.err]

(***************************************************************************)
(* SpecTlv: one decoder applied once to a buffer drawn from Buffers.       *)
(***************************************************************************)
\* 00 01 02: short lengths and values; 42: a numeric tag; 5f: opens a
\* two-byte tag; 70: a template tag; 80: a binary tag, and a long form of
\* no bytes; 82: a two-byte long form; 85: a five-byte long form
TlvBytes == {0, 1, 2, 66, 95, 112, 128, 130, 133}

\* longer buffers: those of tlv/tests.rs (the four-byte length one with a
\* first length byte of 7f), and nestings two deep
TlvVectors ==
    { <<127, 153, 2, 18, 52>>,
      <<128, 129, 255>>,
      <<127, 153, 132, 127, 255, 255, 255>>,
      <<115, 11, 95, 85, 2, 85, 83, 66, 4, 0, 68, 3, 147>>,
      <<128, 131, 0, 1, 0>>,
      <<112, 4, 112, 2, 128, 0>>,
      <<112, 4, 128, 0, 66, 0>>,
      <<112, 6, 128, 1, 7, 66, 1, 18>>,
      <<111, 6, 165, 4, 128, 2, 1, 2>>,
      <<112, 6, 97, 2, 128, 0, 66, 0>>,
      <<112, 4, 97, 2, 128, 5>>,
      <<112, 5, 97, 3, 80, 1, 127>>,
      <<112, 4, 128, 0, 128, 1>>,
      <<112, 129, 4, 128, 0, 128, 0>>,
      <<80, 2, 65, 127>>,
      <<90, 2, 18, 63>>,
      <<95, 45, 2, 101, 110>>,
      <<128, 0, 95, 85, 2, 85, 83>>,
      <<128, 1, 9, 112, 2, 128, 0>> }

Buffers == SeqsUpTo(TlvBytes, MaxLen) \cup TlvVectors

InitTlvRun ==
    /\ raw \in Buffers
    /\ tlvOp = "none"
    /\ tlvOut = <<>>
    /\ overflow_checks \in BOOLEAN

\* read_tl(raw)
ReadTl ==
    /\ tlvOp = "none"
    /\ tlvOp' = "read_tl"
    /\ tlvOut' = read_tl(raw)
    /\ UNCHANGED <<raw, overflow_checks, exchangeVars, encodeVars, callVars, sessionVars>>

\* read_field(raw)
ReadField ==
    /\ tlvOp = "none"
    /\ tlvOp' = "read_field"
    /\ tlvOut' = read_field(raw)
    /\ UNCHANGED <<raw, overflow_checks, exchangeVars, encodeVars, callVars, sessionVars>>

\* template(raw): raw as the value of a template
ReadTemplate ==
    /\ tlvOp = "none"
    /\ tlvOp' = "template"
    /\ tlvOut' = template(raw)
    /\ UNCHANGED <<raw, overflow_checks, exchangeVars, encodeVars, callVars, sessionVars>>

(***************************************************************************)
(* SpecValue: one value decoder applied once to a value drawn from its     *)
(* buffers, in a build with or without overflow checks.                    *)
(***************************************************************************)
\* 1f 20: around the lowest printable; 41: a letter; 7e 7f 80: around DEL;
\* ff: the highest byte
SpecialBytes == {31, 32, 65, 126, 127, 128, 255}
SpecialBuffers == SeqsUpTo(SpecialBytes, MaxLen)

\* 00 09 12 99: BCD bytes; 1a a1: a nibble above 9 in either half
NumericBytes == {0, 9, 18, 153, 26, 161}

\* u128::MAX = 340282366920938463463374607431768211455 as 20 BCD bytes
U128MaxBcd ==
    <<3, 64, 40, 35, 102, 146, 9, 56, 70, 52, 99, 55, 70, 7, 67, 23, 104, 33, 20, 85>>

\* 00 44 03 93 is the value of tlv/tests.rs test_parse_ddt; the others are
\* 38 nines, u128::MAX, u128::MAX + 1, 40 nines, u128::MAX after a zero
\* byte, (u128::MAX + 1) * 100 and 40 nines followed by a1
NumericVectors ==
    { <<0, 68, 3, 147>>,
      Fill(19, 153),
      U128MaxBcd,
      SliceTo(U128MaxBcd, 19) \o <<86>>,
      Fill(20, 153),
      <<0>> \o U128MaxBcd,
      SliceTo(U128MaxBcd, 19) \o <<86, 0>>,
      Fill(20, 153) \o <<161>> }
NumericBuffers == SeqsUpTo(NumericBytes, MaxLen) \cup NumericVectors

\* 12: two digits; 1f f1 ff: 0xF in either half; 1a af fa: a nibble in
\* 10..14 before, beside and after 0xF
DigitBytes == {18, 31, 241, 255, 26, 175, 250}
DigitVectors ==
    { Fill(10, 18), Fill(11, 18), Fill(11, 255), Fill(11, 170), Fill(12, 31),
      Fill(9, 18) \o <<31>>, Fill(9, 18) \o <<26>> }
DigitBuffers == SeqsUpTo(DigitBytes, MaxLen) \cup DigitVectors

InitValueRun ==
    /\ raw \in SpecialBuffers \cup NumericBuffers \cup DigitBuffers
    /\ tlvOp = "none"
    /\ tlvOut = <<>>
    /\ overflow_checks \in BOOLEAN

\* alphanumeric_special(raw)
DecodeAlphanumericSpecial ==
    /\ tlvOp = "none"
    /\ raw \in SpecialBuffers
    /\ tlvOp' = "alphanumeric_special"
    /\ tlvOut' = alphanumeric_special(raw)
    /\ UNCHANGED <<raw, overflow_checks, exchangeVars, encodeVars, callVars, sessionVars>>

\* numeric(raw)
DecodeNumeric ==
    /\ tlvOp = "none"
    /\ raw \in NumericBuffers
    /\ tlvOp' = "numeric"
    /\ tlvOut' = numeric(raw)
    /\ UNCHANGED <<raw, overflow_checks, exchangeVars, encodeVars, callVars, sessionVars>>

\* compressed_numeric(raw)
DecodeCompressedNumeric ==
    /\ tlvOp = "none"
    /\ raw \in DigitBuffers
    /\ tlvOp' = "compressed_numeric"
    /\ tlvOut' = compressed_numeric(raw)
    /\ UNCHANGED <<raw, overflow_checks, exchangeVars, encodeVars, callVars, sessionVars>>

(***************************************************************************)
(* Path lookup: TLVValue::get_path (tlv/mod.rs), over a template's fields  *)
(* in wire order, and Value::get_path with FieldMapExt::get_path           *)
(* (tlv/types.rs), over a map from tag to value.                           *)
(***************************************************************************)
\* a lookup that takes the last field carrying the tag
FindField_Last(fields, tag) ==
    LET hits == SelectSeq(fields, LAMBDA f : f.tag = tag)
    IN  IF hits = <<>> THEN <<>> ELSE <<hits[Len(hits)]>>

\* `for field in fields { if field.tag == *tag {..} }` (mod.rs 66-72): the
\* first field carrying the tag, as a 0- or 1-element sequence
FindField(fields, tag) ==
    LET hits == SelectSeq(fields, LAMBDA f : f.tag = tag)
    IN  IF hits = <<>> THEN <<>> ELSE <<hits[1]>>

\* the loop of TLVValue::get_path (mod.rs 63-78)
RECURSIVE get_path_loop(_, _, _)
get_path_loop(curr_template, last_tag, path) ==
    IF path = <<>> THEN DecOk(curr_template)
    ELSE IF curr_template.typ = "Template"
    THEN LET found == FindField(curr_template.fields, Head(path))
         IN  IF found = <<>> THEN DecErr(NoSuchMember(Head(path)))
             ELSE get_path_loop(found[1].value, Head(path), Tail(path))
    ELSE DecErr(WrongType(last_tag, "Template"))

\* a get_path that refuses the empty path
TLVValue_get_path_NoEmpty(self, path) ==
    IF path = <<>> THEN DecErr(NoPathRequested) ELSE get_path_loop(self, 0, path)

\* TLVValue::get_path (mod.rs 59-79)
TLVValue_get_path(self, path) == get_path_loop(self, 0, path)

\* HashMap::get on a FieldMap; a map holds one value for a tag
FieldMap_get(map, tag) ==
    LET hits == SelectSeq(map, LAMBDA f : f.tag = tag)
    IN  IF hits = <<>> THEN <<>> ELSE <<hits[1]>>

\* the loop of FieldMapExt::get_path over path[..path.len() - 1] and the
\* last lookup (types.rs 63-77)
RECURSIVE FieldMap_get_path_loop(_, _)
FieldMap_get_path_loop(curr_map, path) ==
    LET tag == Head(path)
        field == FieldMap_get(curr_map, tag)
    IN  IF Len(path) = 1
        THEN IF field = <<>> THEN DecErr(NoSuchMember(tag)) ELSE DecOk(field[1].value)
        ELSE IF field = <<>> THEN DecErr(NoSuchMember(tag))
        ELSE IF field[1].value.typ # "Template"
        THEN DecErr(WrongType(tag, "Template"))
        ELSE FieldMap_get_path_loop(field[1].value.fields, Tail(path))

\* FieldMapExt::get_path (types.rs 57-78)
FieldMap_get_path(map, path) ==
    IF path = <<>> THEN DecErr(NoPathRequested)
    ELSE FieldMap_get_path_loop(map, path)

\* Value::get_path (types.rs 289-293)
Value_get_path(self, path) ==
    IF self.typ # "Template" THEN DecErr(WrongType(0, "Template"))
    ELSE FieldMap_get_path(self.fields, path)

\* a value that a FieldMap can hold: no tag twice in a template
RECURSIVE IsFieldMap(_)
IsFieldMap(v) ==
    v.typ = "Template" =>
        /\ \A i, j \in 1..Len(v.fields) : v.fields[i].tag = v.fields[j].tag => i = j
        /\ \A i \in 1..Len(v.fields) : IsFieldMap(v.fields[i].value)

(***************************************************************************)
(* SpecPath: one lookup of a path in a value that the decoder produced.    *)
(***************************************************************************)
\* a binary leaf, a numeric leaf and a template, as the decoder builds them
\* (the fields' tl_len and len play no part in a lookup)
BinaryLeaf(tag, bytes) == Field(tag, Value("Binary", bytes, <<>>, <<>>), 2, Len(bytes))
NumericLeaf(tag) == Field(tag, Value("Numeric", <<>>, U128Zero, <<>>), 2, 1)
Template(tag, fields) == Field(tag, Value("Template", <<>>, <<>>, fields), 2, 0)

\* the values looked into: among them a tag twice at one level, a leaf and
\* a template under the same tag, templates three deep, an empty template
\* and roots that are not templates
PathValues ==
    { Template(0, fs).value : fs \in
        { <<>>,
          <<BinaryLeaf(128, <<7>>)>>,
          <<BinaryLeaf(128, <<7>>), BinaryLeaf(128, <<8>>)>>,
          <<NumericLeaf(66), BinaryLeaf(128, <<7>>)>>,
          <<Template(112, <<BinaryLeaf(128, <<7>>)>>), BinaryLeaf(128, <<8>>)>>,
          <<Template(112, <<BinaryLeaf(128, <<7>>)>>),
            Template(112, <<BinaryLeaf(128, <<8>>)>>)>>,
          <<BinaryLeaf(112, <<7>>), Template(112, <<BinaryLeaf(128, <<8>>)>>)>>,
          <<Template(112, <<>>), Template(112, <<BinaryLeaf(128, <<8>>)>>)>>,
          <<Template(112, <<Template(97, <<BinaryLeaf(128, <<7>>)>>)>>),
            BinaryLeaf(128, <<9>>)>>,
          <<Template(112, <<Template(97, <<BinaryLeaf(128, <<7>>)>>)>>),
            Template(112, <<Template(97, <<BinaryLeaf(128, <<8>>)>>)>>)>>,
          <<Template(112, <<Template(97, <<BinaryLeaf(128, <<7>>)>>),
                            Template(97, <<BinaryLeaf(128, <<8>>)>>)>>)>>,
          <<Template(97, <<Template(112, <<NumericLeaf(66)>>)>>),
            Template(112, <<BinaryLeaf(128, <<7>>)>>)>>,
          <<Template(112, <<Template(97, <<Template(112,
                <<BinaryLeaf(128, <<7>>), NumericLeaf(66)>>)>>)>>)>> } }
        \cup { BinaryLeaf(0, <<7>>).value, NumericLeaf(0).value }

PathTags == {66, 97, 112, 128}

InitPath ==
    /\ args \in [self : PathValues, path : SeqsUpTo(PathTags, MaxPath)]
    /\ called = "none"
    /\ ret = <<>>

\* self.get_path(path) on a TLVValue
GetPath ==
    /\ called = "none"
    /\ called' = "TLVValue::get_path"
    /\ ret' = TLVValue_get_path(args.self, args.path)
    /\ UNCHANGED <<args, exchangeVars, encodeVars, tlvVars, sessionVars>>

\* self.get_path(path) on a Value, whose templates are FieldMaps
GetPathInMap ==
    /\ called = "none"
    /\ IsFieldMap(args.self)
    /\ called' = "Value::get_path"
    /\ ret' = Value_get_path(args.self, args.path)
    /\ UNCHANGED <<args, exchangeVars, encodeVars, tlvVars, sessionVars>>

\* s back to front
RECURSIVE Reversed(_)
Reversed(s) == IF s = <<>> THEN <<>> ELSE Reversed(Tail(s)) \o <<Head(s)>>

\* limbs (highest first) divided by k: the quotient's limbs and, last, the
\* remainder
RECURSIVE DivSmall(_, _, _)
DivSmall(limbs, k, rem) ==
    IF limbs = <<>> THEN <<rem>>
    ELSE LET v == rem * LimbBase + Head(limbs)
         IN  <<v \div k>> \o DivSmall(Tail(limbs), k, v % k)


(***************************************************************************)
(* Dol::encode (tlv/dol.rs 31-109).                                        *)
(***************************************************************************)
EncOk(bytes) == [kind |-> "ok", bytes |-> bytes]
EncPanic == [kind |-> "panic", bytes |-> <<>>]

\* Dol::new_from_entries (tlv/dol.rs 18-21)
RECURSIVE SumSizes(_)
SumSizes(entries) ==
    IF entries = <<>> THEN 0 ELSE Head(entries).size + SumSizes(Tail(entries))
new_from_entries(entries) == Dol(entries, SumSizes(entries))

\* str::as_bytes: the UTF-8 bytes of the characters with these codes (all
\* below 0x100)
RECURSIVE as_bytes(_)
as_bytes(chars) ==
    IF chars = <<>> THEN <<>>
    ELSE (IF Head(chars) < 128 THEN <<Head(chars)>>
          ELSE <<192 + (Head(chars) \div 64), 128 + (Head(chars) % 64)>>)
         \o as_bytes(Tail(chars))

\* a copy_bytes that cuts the source down to the destination
copy_bytes_Truncating(b, out_len) ==
    IF Len(b) > out_len THEN EncOk(SliceTo(b, out_len))
    ELSE EncOk(b \o Fill(out_len - Len(b), 0))

\* Dol::copy_bytes (105-108) into a zeroed destination of out_len bytes:
\* out[..copied_len].copy_from_slice(b) panics unless b is copied_len long
copy_bytes(b, out_len) ==
    LET copied_len == IF Len(b) < out_len THEN Len(b) ELSE out_len
    IN  IF Len(b) # copied_len THEN EncPanic
        ELSE EncOk(b \o Fill(out_len - copied_len, 0))

\* Value::DigitString (74-83): 0xff, then the digits two to a byte
DigitStringBytes(s, out_len) ==
    [i \in 1..out_len |->
        IF 2 * i <= Len(s) THEN s[2 * i - 1] * 16 + s[2 * i]
        ELSE IF 2 * i - 1 = Len(s) THEN ((s[2 * i - 1] * 16) % 256) + 15
        ELSE 255]

\* Value::Numeric (84-91): from the last byte back, number % 100 as two BCD
\* digits and number /= 100; number as limbs, lowest first
RECURSIVE NumericBytes_(_, _)
NumericBytes_(number, out_len) ==
    IF out_len = 0 THEN <<>>
    ELSE LET qr == DivSmall(Reversed(number), 100, 0)
             digits == qr[Len(number) + 1]
         IN  NumericBytes_(Reversed(SliceTo(qr, Len(number))), out_len - 1)
                 \o <<((digits \div 10) * 16) + (digits % 10)>>

\* the match on the value (69-96), for a destination of size zero bytes
FormatValue(value, size) ==
    CASE value.typ \in {"Alphabetic", "Alphanumeric", "AlphanumericSpecial"} ->
            copy_bytes(as_bytes(value.bytes), size)
      [] value.typ = "Binary" -> copy_bytes(value.bytes, size)
      [] value.typ = "DigitString" -> EncOk(DigitStringBytes(value.bytes, size))
      [] value.typ = "Numeric" -> EncOk(NumericBytes_(value.num, size))
      [] value.typ \in {"Template", "Dol"} -> EncOk(Fill(size, 0))

\* the loop over the entries (66-100) on the remaining_len zeroed bytes of
\* encoded_slice; data is a function from the tags it holds to their values
RECURSIVE EncodeEntries(_, _, _)
EncodeEntries(entries, remaining_len, data) ==
    IF entries = <<>> THEN EncOk(Fill(remaining_len, 0))
    ELSE LET entry == Head(entries)
         IN  IF entry.size > remaining_len THEN EncPanic     \* split_at_mut
             ELSE LET dest == IF entry.tag \in DOMAIN data
                              THEN FormatValue(data[entry.tag], entry.size)
                              ELSE EncOk(Fill(entry.size, 0))
                      rest == EncodeEntries(Tail(entries),
                                            remaining_len - entry.size, data)
                  IN  IF dest.kind = "panic" \/ rest.kind = "panic" THEN EncPanic
                      ELSE EncOk(dest.bytes \o rest.bytes)

\* a length that is short up to 127, as BER has it
LenLen_ShortTo127(size) ==
    IF size < 128 THEN 1
    ELSE IF size < 256 THEN 2
    ELSE IF size < 65536 THEN 3
    ELSE IF size < 16777216 THEN 4
    ELSE 5

\* len_len (41-45): 1 below 256, else self.size.ilog2() / 8 + 2
LenLen(size) ==
    IF size < 256 THEN 1
    ELSE IF size < 65536 THEN 3
    ELSE IF size < 16777216 THEN 4
    ELSE 5

\* the last n bytes of size.to_be_bytes() (57-59)
RECURSIVE SizeBE(_, _)
SizeBE(size, n) ==
    IF n = 0 THEN <<>> ELSE SizeBE(size \div 256, n - 1) \o <<size % 256>>

\* the tag and length written before the entries (35-61), t the wrap tag
WrapPrefix(t, size) ==
    LET tag_len == IF t >= 256 THEN 2 ELSE 1
        len_len == LenLen(size)
    IN  (IF tag_len = 1 THEN <<AsU8(t)>> ELSE U16BE(t))
        \o (IF len_len = 1 THEN <<AsU8(size)>>
            ELSE <<128 + (len_len - 1)>> \o SizeBE(size, len_len - 1))

\* Dol::encode (31-103); tag is <<>> for None and <<t>> for Some(t)
Dol_encode(self, tag, data) ==
    LET body == EncodeEntries(self.entries, self.size, data)
    IN  IF body.kind = "panic" THEN EncPanic
        ELSE IF tag = <<>> THEN body
        ELSE EncOk(WrapPrefix(tag[1], self.size) \o body.bytes)

(***************************************************************************)
(* SpecDol: one Dol::encode of a DOL with a provider state.                *)
(***************************************************************************)
\* 9f37 (unpredictable number) and 5f2a (currency code) are the tags that
\* main.rs puts in the state; 9a is never in it
DolTags == {40759, 24362, 154}
DolSizes == {0, 1, 3}
DolEntries == {DOLEntry(t, s) : t \in DolTags, s \in DolSizes}

\* sizes around the one- and the two-byte length
BigDols == {new_from_entries(<<DOLEntry(154, n)>>) : n \in {127, 128, 255, 256, 65536}}

Dols == {new_from_entries(es) : es \in SeqsUpTo(DolEntries, MaxEntries)} \cup BigDols

\* 840: the Numeric(840) of main.rs 60
U128Of840 == [i \in 1..U128Limbs |-> IF i = 1 THEN 840 ELSE 0]

\* values a state can hold; the first is that of main.rs 58
StateValues ==
    { Value("Binary", <<0, 0, 0, 4>>, <<>>, <<>>),
      Value("Binary", <<1, 2>>, <<>>, <<>>),
      Value("Alphanumeric", <<85, 83>>, <<>>, <<>>),
      Value("DigitString", <<1, 2, 3>>, <<>>, <<>>),
      Value("Numeric", <<>>, U128Of840, <<>>),
      Value("Template", <<>>, <<>>, <<BinaryLeaf(128, <<7>>)>>),
      Value("Dol", <<>>, <<>>, <<new_from_entries(<<DOLEntry(154, 1)>>)>>) }

\* the provider states: 9f37 and 5f2a, each absent or with one of the values
States ==
    UNION { [ts -> StateValues] : ts \in SUBSET {40759, 24362} }

\* no wrap tag, 0x83 (the GET PROCESSING OPTIONS template) and a two-byte tag
WrapTags == {<<>>, <<131>>, <<48908>>}

InitDol ==
    /\ args \in [dol : Dols, tag : WrapTags, data : States]
    /\ called = "none"
    /\ ret = <<>>

\* self.encode(None, data)
EncodeDol ==
    /\ called = "none"
    /\ args.tag = <<>>
    /\ called' = "Dol::encode"
    /\ ret' = Dol_encode(args.dol, args.tag, args.data)
    /\ UNCHANGED <<args, exchangeVars, encodeVars, tlvVars, sessionVars>>

\* self.encode(Some(t), data)
EncodeDolWrapped ==
    /\ called = "none"
    /\ args.tag # <<>>
    /\ called' = "Dol::encode"
    /\ ret' = Dol_encode(args.dol, args.tag, args.data)
    /\ UNCHANGED <<args, exchangeVars, encodeVars, tlvVars, sessionVars>>

(***************************************************************************)
(* The certificate chain (crypto/chain.rs).                                *)
(*                                                                         *)
(* A verification returns kind "ok" with its key, kind "err" with a        *)
(* VerifyError, or kind "panic" when an index, a slice or (in a build with *)
(* overflow checks) a subtraction is out of range.                         *)
(***************************************************************************)
VerifyError(e, a, b) == [e |-> e, a |-> a, b |-> b]
NoVerifyError == VerifyError("", 0, 0)
UnknownCAKey(rid, index) == VerifyError("UnknownCAKey", rid, index)
CertificateTooLarge(n) == VerifyError("CertificateTooLarge", n, 0)
CertificateLengthMismatch(mod_size, cert_size) ==
    VerifyError("CertificateLengthMismatch", mod_size, cert_size)
InvalidSignature == VerifyError("InvalidSignature", 0, 0)
InvalidData == VerifyError("InvalidData", 0, 0)
MissingTag(tag) == VerifyError("MissingTag", tag, 0)
UnmatchedPAN == VerifyError("UnmatchedPAN", 0, 0)

VerOk(v) == [kind |-> "ok", val |-> v, err |-> NoVerifyError]
VerErr(err) == [kind |-> "err", val |-> <<>>, err |-> err]
VerPanic == [kind |-> "panic", val |-> <<>>, err |-> NoVerifyError]

\* s[from..to] of a Rust slice (0-based, `to` excluded) is in range
InRange(s, from, to) == from <= to /\ to <= Len(s)

\* s[from..to], defined when in range
Slice(s, from, to) == SubSeq(s, from + 1, to)

\* chrono::NaiveDate, a day of the proleptic Gregorian calendar
NaiveDate(year, month, day) == [year |-> year, month |-> month, day |-> day]

IsLeapYear(year) == (year % 4 = 0 /\ year % 100 # 0) \/ year % 400 = 0

DaysInMonth(year, month) ==
    IF month \in {4, 6, 9, 11} THEN 30
    ELSE IF month = 2 THEN (IF IsLeapYear(year) THEN 29 ELSE 28)
    ELSE 31

\* NaiveDate::from_ymd_opt: <<>> is None, <<d>> is Some(d)
from_ymd_opt(year, month, day) ==
    IF month \in 1..12 /\ day \in 1..DaysInMonth(year, month)
    THEN <<NaiveDate(year, month, day)>>
    ELSE <<>>

\* NaiveDate::pred_opt: the day before (None only at chrono's MIN date)
pred_opt(date) ==
    IF date.day > 1 THEN <<NaiveDate(date.year, date.month, date.day - 1)>>
    ELSE IF date.month > 1
    THEN <<NaiveDate(date.year, date.month - 1, DaysInMonth(date.year, date.month - 1))>>
    ELSE <<NaiveDate(date.year - 1, 12, 31)>>

\* date_ym (28-38); the numeric of one byte is below 100, so its value is
\* its lowest limb and nothing overflows
date_ym(mmyy) ==
    IF ~InRange(mmyy, 1, 2) THEN VerPanic
    ELSE LET yy == numeric(Slice(mmyy, 1, 2))
             mm == numeric(Slice(mmyy, 0, 1))
         IN  IF yy.kind # "ok" \/ mm.kind # "ok" THEN VerErr(InvalidData)
             ELSE LET wraps == mm.val.num[1] = 12
                      year == 2000 + yy.val.num[1] + (IF wraps THEN 1 ELSE 0)
                      month == IF wraps THEN 1 ELSE mm.val.num[1]
                      first == from_ymd_opt(year, month, 1)
                  IN  IF first = <<>> THEN VerErr(InvalidData)
                      ELSE VerOk(pred_opt(first[1])[1])

\* options.get(&tag): <<>> is None, <<v>> is Some(v)
Get(options, tag) == IF tag \in DOMAIN options THEN <<options[tag]>> ELSE <<>>

\* options.get(&tag).and_then(Value::as_binary)
GetBinary(options, tag) ==
    IF Get(options, tag) # <<>> /\ options[tag].typ = "Binary"
    THEN <<options[tag].bytes>> ELSE <<>>

\* options.get(&tag).and_then(Value::as_digit_string)
GetDigitString(options, tag) ==
    IF Get(options, tag) # <<>> /\ options[tag].typ = "DigitString"
    THEN <<options[tag].bytes>> ELSE <<>>

\* Option<&[u8]>::unwrap_or_default
unwrap_or_default(opt) == IF opt = <<>> THEN <<>> ELSE opt[1]

\* a U2048 is held as its big-endian bytes without leading zero bytes, so
\* that (bits_vartime() + 7) / 8 is its length
RECURSIVE U2048(_)
U2048(bytes) ==
    IF bytes # <<>> /\ Head(bytes) = 0 THEN U2048(Tail(bytes)) ELSE bytes

\* x << (8 * n) | low, for low of n bytes: bits above 2048 are shifted out
ShlOr(x, low) ==
    LET all == x \o low
    IN  U2048(IF Len(all) > 256 THEN SliceFrom(all, Len(all) - 256) ELSE all)

\* certificate_to_bigint (17-26)
certificate_to_bigint(certificate) ==
    IF Len(certificate) > 248 THEN VerErr(CertificateTooLarge(Len(certificate)))
    ELSE VerOk(U2048(certificate))

\* KeyId and KeyData (ca_keys.rs 6-17); the modulus is held as its length in
\* bytes, the one thing chain.rs reads of it besides raising to its power
KeyId(rid, index) == [rid |-> rid, index |-> index]
KeyData(expiry, exponent, modulus_len) ==
    [expiry |-> expiry, exponent |-> exponent, modulus_len |-> modulus_len]

\* CA_KEYS (ca_keys.rs 36-42)
CA_KEYS ==
    (KeyId("A000000004", 5) :> KeyData(NaiveDate(2024, 12, 31), 3, 176))
    @@ (KeyId("A000000004", 6) :> KeyData(NaiveDate(2028, 12, 31), 3, 248))
    @@ (KeyId("A000000152", 5) :> KeyData(NaiveDate(2028, 12, 31), 3, 248))

\* the sum of the bytes, by halves
RECURSIVE SumBytes(_)
SumBytes(data) ==
    IF data = <<>> THEN 0
    ELSE IF Len(data) = 1 THEN data[1]
    ELSE SumBytes(SliceTo(data, Len(data) \div 2))
         + SumBytes(SliceFrom(data, Len(data) \div 2))

\* Sha1::new() .. finalize(): a function from the bytes hashed to 20 bytes.
\* Nothing here depends on which function it is; a checksum stands for it.
Sha1(data) == [i \in 1..20 |-> (SumBytes(data) * i + Len(data) + i) % 256]

\* recovered[i] != want || ..., left to right over <<i, want>> pairs:
\* "panic" at an index out of range, "differs" at the first difference
RECURSIVE Understood(_, _)
Understood(recovered, checks) ==
    IF checks = <<>> THEN "same"
    ELSE IF Head(checks)[1] >= Len(recovered) THEN "panic"
    ELSE IF recovered[Head(checks)[1] + 1] # Head(checks)[2] THEN "differs"
    ELSE Understood(recovered, Tail(checks))

\* [0u8; 4] with the exponent copied to its end (138-142)
ExponentArr(exponent_be) == Fill(4 - Len(exponent_be), 0) \o exponent_be

\* a test that takes every PAN for a match of the IIN
starts_with_Any(pan, iin) == TRUE

\* pan.starts_with(&iin)
starts_with(pan, iin) ==
    Len(iin) <= Len(pan) /\ SliceTo(pan, Len(iin)) = iin

IssuerPublicKey(iin, expiry, serial_number, exponent, modulus) ==
    [iin |-> iin, expiry |-> expiry, serial_number |-> serial_number,
     exponent |-> exponent, modulus |-> modulus]

\* IssuerPublicKey::from_options, from step 3 on (100-150): recovered is
\* the last ca_modulus_len bytes of the certificate raised to the power of
\* the CA key
IssuerRecovered(ca_modulus_len, recovered, issuer_remainder, issuer_exponent_be, pan) ==
    LET understood == Understood(recovered, <<<<0, 106>>, <<1, 2>>, <<11, 1>>, <<12, 1>>>>)
    IN
    IF understood = "panic" THEN VerPanic
    ELSE IF understood = "differs" THEN VerErr(InvalidSignature)
    \* ca_modulus_len - 21 below zero panics in a build with overflow
    \* checks and is an end far out of range in one without
    ELSE IF ca_modulus_len < 21 \/ ~InRange(recovered, 1, ca_modulus_len - 21) THEN VerPanic
    ELSE IF Sha1(Slice(recovered, 1, ca_modulus_len - 21) \o issuer_remainder \o issuer_exponent_be)
            # Slice(recovered, ca_modulus_len - 21, ca_modulus_len - 1)
    THEN VerErr(InvalidSignature)
    ELSE LET iin == compressed_numeric(Slice(recovered, 2, 6)) IN
    IF iin.kind # "ok" THEN VerErr(UnmatchedPAN)
    ELSE IF ~starts_with(pan, iin.val.bytes) THEN VerErr(UnmatchedPAN)
    ELSE IF ca_modulus_len < 36 /\ overflow_checks THEN VerPanic
    ELSE LET issuer_modulus_len == recovered[14]
             whole == ca_modulus_len < 36 \/ issuer_modulus_len <= ca_modulus_len - 36
         IN
    IF whole /\ ~InRange(recovered, 15, 15 + issuer_modulus_len) THEN VerPanic
    ELSE IF ~whole /\ ~InRange(recovered, 15, ca_modulus_len - 21) THEN VerPanic
    ELSE LET head == certificate_to_bigint(
                         IF whole THEN Slice(recovered, 15, 15 + issuer_modulus_len)
                         ELSE Slice(recovered, 15, ca_modulus_len - 21))
             tail == certificate_to_bigint(issuer_remainder)
         IN
    IF head.kind # "ok" THEN head
    ELSE IF ~whole /\ tail.kind # "ok" THEN tail
    ELSE IF Len(issuer_exponent_be) > 4 THEN VerErr(InvalidData)
    ELSE LET expiry == date_ym(Slice(recovered, 6, 8)) IN
    IF expiry.kind # "ok" THEN expiry
    ELSE VerOk(IssuerPublicKey(
                   iin.val.bytes,
                   expiry.val,
                   Slice(recovered, 8, 11),
                   ExponentArr(issuer_exponent_be),
                   IF whole THEN head.val
                   ELSE ShlOr(head.val, issuer_remainder)))

\* IssuerPublicKey::from_options (50-151); recovered stands for what
\* pow_bounded_exp returns for the certificate and the CA key (92-98)
IssuerPublicKey_from_options(rid, options, recovered) ==
    LET index == GetBinary(options, 143)
        issuer_certificate_be == GetBinary(options, 144)
        issuer_exponent_be == GetBinary(options, 40754)
        issuer_remainder == unwrap_or_default(GetBinary(options, 146))
        pan == GetDigitString(options, 90)
    IN
    IF index = <<>> \/ index[1] = <<>> THEN VerErr(MissingTag(143))
    ELSE IF issuer_certificate_be = <<>> THEN VerErr(MissingTag(144))
    ELSE IF issuer_exponent_be = <<>> THEN VerErr(MissingTag(40754))
    ELSE IF pan = <<>> THEN VerErr(MissingTag(90))
    ELSE IF KeyId(rid, index[1][1]) \notin DOMAIN CA_KEYS
    THEN VerErr(UnknownCAKey(rid, index[1][1]))
    ELSE LET ca_modulus_len == CA_KEYS[KeyId(rid, index[1][1])].modulus_len IN
    IF ca_modulus_len # Len(issuer_certificate_be[1])
    THEN VerErr(CertificateLengthMismatch(ca_modulus_len, Len(issuer_certificate_be[1])))
    ELSE IF certificate_to_bigint(issuer_certificate_be[1]).kind # "ok"
    THEN certificate_to_bigint(issuer_certificate_be[1])
    ELSE IssuerRecovered(ca_modulus_len, recovered, issuer_remainder,
                         issuer_exponent_be[1], pan[1])

ICCPublicKey(pan, expiry, serial_number, exponent, modulus) ==
    [pan |-> pan, expiry |-> expiry, serial_number |-> serial_number,
     exponent |-> exponent, modulus |-> modulus]

\* ICCPublicKey::from_options, from step 3 on (211-274): signed is what the
\* hasher is fed after recovered[1..issuer_modulus_len - 21]
ICCRecovered(issuer_modulus_len, recovered, icc_remainder, icc_exponent_be, signed, options_pan) ==
    LET understood == Understood(recovered, <<<<0, 106>>, <<1, 4>>, <<17, 1>>, <<18, 1>>>>)
    IN
    IF understood = "panic" THEN VerPanic
    ELSE IF understood = "differs" THEN VerErr(InvalidSignature)
    \* issuer_modulus_len - 21 below zero panics in a build with overflow
    \* checks and is an end far out of range in one without
    ELSE IF issuer_modulus_len < 21 \/ ~InRange(recovered, 1, issuer_modulus_len - 21) THEN VerPanic
    ELSE IF Sha1(Slice(recovered, 1, issuer_modulus_len - 21) \o signed)
            # Slice(recovered, issuer_modulus_len - 21, issuer_modulus_len - 1)
    THEN VerErr(InvalidSignature)
    ELSE LET pan == compressed_numeric(Slice(recovered, 2, 12)) IN
    IF pan.kind # "ok" THEN VerErr(UnmatchedPAN)
    ELSE IF pan.val.bytes # options_pan THEN VerErr(UnmatchedPAN)
    ELSE IF issuer_modulus_len < 42 /\ overflow_checks THEN VerPanic
    ELSE LET icc_modulus_len == recovered[20]
             whole == issuer_modulus_len < 42 \/ icc_modulus_len <= issuer_modulus_len - 42
         IN
    IF whole /\ ~InRange(recovered, 21, 21 + icc_modulus_len) THEN VerPanic
    ELSE IF ~whole /\ ~InRange(recovered, 21, issuer_modulus_len - 21) THEN VerPanic
    ELSE LET head == certificate_to_bigint(
                         IF whole THEN Slice(recovered, 21, 21 + icc_modulus_len)
                         ELSE Slice(recovered, 21, issuer_modulus_len - 21))
             tail == certificate_to_bigint(icc_remainder)
         IN
    IF head.kind # "ok" THEN head
    ELSE IF ~whole /\ tail.kind # "ok" THEN tail
    ELSE IF Len(icc_exponent_be) > 4 THEN VerErr(InvalidData)
    ELSE LET expiry == date_ym(Slice(recovered, 12, 14)) IN
    IF expiry.kind # "ok" THEN expiry
    ELSE VerOk(ICCPublicKey(
                   pan.val.bytes,
                   expiry.val,
                   Slice(recovered, 14, 17),
                   ExponentArr(icc_exponent_be),
                   IF whole THEN head.val
                   ELSE ShlOr(head.val, icc_remainder)))

\* what the ICC hasher is fed after the recovered bytes (220-233)
ICCSigned(icc_remainder, icc_exponent_be, sda_data, options) ==
    icc_remainder \o icc_exponent_be \o sda_data
    \o (IF 40778 \in DOMAIN options
        THEN unwrap_or_default(GetBinary(options, 130)) ELSE <<>>)

\* ICCPublicKey::from_options (164-275); recovered stands for what
\* pow_bounded_exp returns for the certificate and the issuer key (201-207)
ICCPublicKey_from_options(issuer_key, sda_data, options, recovered) ==
    LET icc_certificate_be == GetBinary(options, 40774)
        icc_exponent_be == GetBinary(options, 40775)
        icc_remainder == unwrap_or_default(GetBinary(options, 40776))
        options_pan == GetDigitString(options, 90)
        issuer_modulus_len == Len(issuer_key.modulus)
    IN
    IF icc_certificate_be = <<>> THEN VerErr(MissingTag(40774))
    ELSE IF icc_exponent_be = <<>> THEN VerErr(MissingTag(40775))
    ELSE IF options_pan = <<>> THEN VerErr(MissingTag(90))
    ELSE IF issuer_modulus_len # Len(icc_certificate_be[1])
    THEN VerErr(CertificateLengthMismatch(issuer_modulus_len, Len(icc_certificate_be[1])))
    ELSE IF certificate_to_bigint(icc_certificate_be[1]).kind # "ok"
    THEN certificate_to_bigint(icc_certificate_be[1])
    ELSE ICCRecovered(issuer_modulus_len, recovered, icc_remainder, icc_exponent_be[1],
                      ICCSigned(icc_remainder, icc_exponent_be[1], sda_data, options),
                      options_pan[1])

(***************************************************************************)
(* SpecChain: one call of date_ym, IssuerPublicKey::from_options or        *)
(* ICCPublicKey::from_options, in a build with or without overflow checks. *)
(***************************************************************************)
\* 20 bytes that are not the digest
NotDigest(digest) == [i \in 1..20 |-> (digest[i] + 1) % 256]

\* what a certificate recovers to under a parent key of k bytes: header,
\* the fields before the key, k - 22 - Len(fields) bytes of the key, the
\* digest of all but the header (or 20 other bytes), and the trailer
RecoveredData(k, header, fields, signed, hashOk, trailer) ==
    LET inner == fields \o Fill(k - 22 - Len(fields), 187)
        digest == Sha1(inner \o signed)
    IN  <<header>> \o inner \o (IF hashOk THEN digest ELSE NotDigest(digest)) \o <<trailer>>

\* the fields of an issuer certificate (format 02): IIN, expiry, serial
\* number, hash and key algorithm, key and exponent length
IssuerFields(f) ==
    <<f.format>> \o f.id \o f.mmyy \o <<0, 0, 1>> \o <<f.alg, 1>>
    \o <<f.modulus_len, Len(f.exponent)>>

\* the fields of an ICC certificate (format 04): PAN, expiry, serial number,
\* hash and key algorithm, key and exponent length
ICCFields(f) ==
    <<f.format>> \o f.id \o f.mmyy \o <<0, 0, 2>> \o <<f.alg, 1>>
    \o <<f.modulus_len, Len(f.exponent)>>

Binary(bytes) == Value("Binary", bytes, <<>>, <<>>)
DigitString(digits) == Value("DigitString", digits, <<>>, <<>>)

\* a map without the tags in `without`
Without(options, without) == [t \in DOMAIN options \ without |-> options[t]]

\* PANs a card reports in tag 5A
Pans == { <<4, 1, 1, 1, 1, 1, 1, 1>>, <<4, 1, 1, 1, 1>>, <<5, 1, 0, 0, 0, 0, 1>> }

\* IINs: six digits, five digits, eight digits, digits after a pad, no
\* digit at all, and a nibble that is no digit
Iins ==
    { <<65, 17, 17, 255>>, <<65, 17, 31, 255>>, <<81, 0, 0, 1>>,
      <<65, 241, 17, 17>>, <<255, 255, 255, 255>>, <<74, 17, 17, 255>> }

\* expiry fields: December, a month before it, and no month
Expiries == { <<18, 37>>, <<5, 37>>, <<19, 37>> }

IssuerDefault ==
    [index |-> 5, rid |-> "A000000004", header |-> 106, format |-> 2, alg |-> 1,
     id |-> <<65, 17, 17, 255>>, pan |-> <<4, 1, 1, 1, 1, 1, 1, 1>>,
     mmyy |-> <<18, 37>>, modulus_len |-> 140, exponent |-> <<3>>,
     remainder |-> <<>>, hashOk |-> TRUE, trailer |-> 188, short |-> 0,
     without |-> {}]

\* the fields that the PAN, hash and expiry steps read, in every combination
IssuerMain ==
    { [IssuerDefault EXCEPT !.index = i, !.modulus_len = IF i = 5 THEN 140 ELSE 212,
                            !.header = h, !.id = id, !.pan = pan, !.mmyy = mmyy,
                            !.hashOk = ok, !.trailer = t] :
        i \in {5, 6}, h \in {106, 107}, id \in Iins, pan \in Pans,
        mmyy \in Expiries, ok \in BOOLEAN, t \in {188, 0} }

\* the other steps, one change at a time
IssuerOthers ==
    { [IssuerDefault EXCEPT !.without = {t}] : t \in {143, 144, 40754, 146, 90} }
    \cup { [IssuerDefault EXCEPT !.index = 7],
           [IssuerDefault EXCEPT !.rid = "A000000152", !.modulus_len = 212],
           [IssuerDefault EXCEPT !.rid = "A000000003"],
           [IssuerDefault EXCEPT !.short = 1],
           [IssuerDefault EXCEPT !.format = 4],
           [IssuerDefault EXCEPT !.alg = 2],
           [IssuerDefault EXCEPT !.modulus_len = 144, !.remainder = <<0, 7, 9, 11>>],
           [IssuerDefault EXCEPT !.modulus_len = 141, !.remainder = <<7>>, !.trailer = 0],
           [IssuerDefault EXCEPT !.modulus_len = 141, !.remainder = Fill(120, 7)],
           [IssuerDefault EXCEPT !.exponent = <<1, 0, 1>>],
           [IssuerDefault EXCEPT !.exponent = <<0, 0, 1, 0, 1>>] }

IssuerOptions(f, k) ==
    Without((143 :> Binary(<<f.index>>))
            @@ (144 :> Binary(Fill(k - f.short, 90)))
            @@ (40754 :> Binary(f.exponent))
            @@ (146 :> Binary(f.remainder))
            @@ (90 :> DigitString(f.pan)),
            f.without)

\* the arguments of one call: the options of the card and what its
\* certificate recovers to under the CA key
IssuerArgs(f) ==
    LET k == IF KeyId(f.rid, f.index) \in DOMAIN CA_KEYS
             THEN CA_KEYS[KeyId(f.rid, f.index)].modulus_len ELSE 176
    IN  [op |-> "issuer", rid |-> f.rid,
         options |-> IssuerOptions(f, k),
         recovered |-> RecoveredData(k, f.header, IssuerFields(f),
                                     f.remainder \o f.exponent, f.hashOk, f.trailer)]

\* PANs in an ICC certificate: eight digits, five digits, ten digits,
\* digits after a pad, and a nibble that is no digit
IccPans ==
    { <<65, 17, 17, 17>> \o Fill(6, 255), <<65, 17, 31>> \o Fill(7, 255),
      <<65, 17, 17, 17, 17>> \o Fill(5, 255), <<65, 17, 17, 17, 241>> \o Fill(5, 17),
      <<74, 17, 17, 17>> \o Fill(6, 255) }

\* an issuer key with a modulus of k bytes
IssuerKeyOf(k) ==
    IssuerPublicKey(<<4, 1, 1, 1, 1, 1>>, NaiveDate(2037, 11, 30), <<0, 0, 1>>,
                    <<0, 0, 0, 3>>, <<193>> \o Fill(k - 1, 255))

ICCDefault ==
    [k |-> 64, header |-> 106, format |-> 4, alg |-> 1,
     id |-> <<65, 17, 17, 17>> \o Fill(6, 255), pan |-> <<4, 1, 1, 1, 1, 1, 1, 1>>,
     mmyy |-> <<18, 37>>, modulus_len |-> 22, exponent |-> <<3>>,
     remainder |-> <<>>, sda_data |-> <<90, 8>>, aip |-> <<>>, hashOk |-> TRUE,
     trailer |-> 188, short |-> 0, without |-> {40778, 130}]

ICCMain ==
    { [ICCDefault EXCEPT !.k = k, !.modulus_len = k - 42,
                         !.header = h, !.id = id, !.pan = pan, !.mmyy = mmyy,
                         !.hashOk = ok, !.trailer = t] :
        k \in {64, 128}, h \in {106, 107}, id \in IccPans, pan \in Pans,
        mmyy \in Expiries, ok \in BOOLEAN, t \in {188, 0} }

ICCOthers ==
    { [ICCDefault EXCEPT !.without = {40778, 130, t}] : t \in {40774, 40775, 40776, 90} }
    \cup { [ICCDefault EXCEPT !.short = 1],
           [ICCDefault EXCEPT !.format = 2],
           [ICCDefault EXCEPT !.alg = 2],
           [ICCDefault EXCEPT !.sda_data = <<>>],
           [ICCDefault EXCEPT !.without = {}, !.aip = <<57, 0>>],
           [ICCDefault EXCEPT !.without = {130}],
           [ICCDefault EXCEPT !.without = {40778}],
           [ICCDefault EXCEPT !.modulus_len = 24, !.remainder = <<0, 9>>],
           [ICCDefault EXCEPT !.modulus_len = 23, !.remainder = <<9>>, !.trailer = 0],
           [ICCDefault EXCEPT !.exponent = <<1, 0, 1>>],
           [ICCDefault EXCEPT !.exponent = <<0, 0, 1, 0, 1>>] }

ICCOptions(f) ==
    Without((40774 :> Binary(Fill(f.k - f.short, 90)))
            @@ (40775 :> Binary(f.exponent))
            @@ (40776 :> Binary(f.remainder))
            @@ (90 :> DigitString(f.pan))
            @@ (40778 :> Binary(<<130>>))
            @@ (130 :> Binary(<<57, 0>>)),
            f.without)

\* the arguments of one call: the issuer key, the signed static data, the
\* options of the card and what its certificate recovers to under the key
ICCArgs(f) ==
    [op |-> "icc", issuer_key |-> IssuerKeyOf(f.k), sda_data |-> f.sda_data,
     options |-> ICCOptions(f),
     recovered |-> RecoveredData(f.k, f.header, ICCFields(f),
                                 f.remainder \o f.exponent \o f.sda_data \o f.aip,
                                 f.hashOk, f.trailer)]

\* what an ICC certificate recovers to under an issuer key of k < 42 bytes:
\* the first k bytes of the layout when k < 22, else the header, the first
\* k - 22 bytes after it, their digest and the trailer
ShortRecoveredData(k, fields, signed) ==
    LET layout == fields \o Fill(22, 187)
    IN  IF k < 22 THEN SliceTo(<<106>> \o layout, k)
        ELSE <<106>> \o SliceTo(layout, k - 22)
             \o Sha1(SliceTo(layout, k - 22) \o signed) \o <<188>>

\* issuer keys shorter than an ICC certificate's fixed fields and digest
ShortLens == {1, 2, 10, 18, 19, 20, 21, 22, 30, 40, 41}

ICCShort ==
    { [ICCDefault EXCEPT !.k = k, !.modulus_len = l] : k \in ShortLens, l \in {5, 22} }

ICCShortArgs(f) ==
    [op |-> "icc", issuer_key |-> IssuerKeyOf(f.k), sda_data |-> f.sda_data,
     options |-> ICCOptions(f),
     recovered |-> ShortRecoveredData(f.k, ICCFields(f),
                                      f.remainder \o f.exponent \o f.sda_data \o f.aip)]

\* month and year bytes: BCD months 00..13, 99, and bytes with a nibble
\* that is no digit; BCD years 00, 24 (leap), 37, 99 and one that is not BCD
MonthBytes == {0, 1, 2, 3, 4, 5, 6, 7, 8, 9, 16, 17, 18, 19, 153, 10, 26, 241}
YearBytes == {0, 36, 55, 153, 42, 250}

DateArgs == { [op |-> "date_ym", mmyy |-> <<mm, yy>>] : mm \in MonthBytes, yy \in YearBytes }

InitChain ==
    /\ args \in { IssuerArgs(f) : f \in IssuerMain \cup IssuerOthers }
              \cup { ICCArgs(f) : f \in ICCMain \cup ICCOthers }
              \cup { ICCShortArgs(f) : f \in ICCShort }
              \cup DateArgs
    /\ called = "none"
    /\ ret = <<>>
    /\ raw = <<>>
    /\ tlvOp = "none"
    /\ tlvOut = <<>>
    /\ overflow_checks \in BOOLEAN

DateYm ==
    /\ called = "none"
    /\ args.op = "date_ym"
    /\ called' = "date_ym"
    /\ ret' = date_ym(args.mmyy)
    /\ UNCHANGED <<args, exchangeVars, encodeVars, tlvVars, sessionVars>>

VerifyIssuer ==
    /\ called = "none"
    /\ args.op = "issuer"
    /\ called' = "IssuerPublicKey::from_options"
    /\ ret' = IssuerPublicKey_from_options(args.rid, args.options, args.recovered)
    /\ UNCHANGED <<args, exchangeVars, encodeVars, tlvVars, sessionVars>>

VerifyICC ==
    /\ called = "none"
    /\ args.op = "icc"
    /\ called' = "ICCPublicKey::from_options"
    /\ ret' = ICCPublicKey_from_options(args.issuer_key, args.sda_data, args.options,
                                        args.recovered)
    /\ UNCHANGED <<args, exchangeVars, encodeVars, tlvVars, sessionVars>>

(***************************************************************************)
(* Application discovery (pse.rs) over the FieldMap of tlv/types.rs.       *)
(* A map is held as a sequence of fields in which no tag occurs twice.     *)
(***************************************************************************)
\* Value::Template(FieldMap) with FieldMap = HashMap<u16, Value> (types.rs
\* 18, 22): the map is left with one value for a tag.  keeps says which of
\* the decoded fields carrying the tag that is ("first" or "last"): the map
\* type admits either, whatever fills it.
RECURSIVE FieldMapOf(_, _)
FieldMapOf(fields, keeps) ==
    LET firsts == SelectSeq([i \in 1..Len(fields) |-> i],
                            LAMBDA i : \A j \in 1..(i - 1) : fields[j].tag # fields[i].tag)
        kept(t) == LET hits == SelectSeq(fields, LAMBDA f : f.tag = t)
                   IN  IF keeps = "last" THEN hits[Len(hits)] ELSE hits[1]
        mapped(f) == IF f.value.typ = "Template"
                     THEN Field(f.tag, Value("Template", <<>>, <<>>,
                                             FieldMapOf(f.value.fields, keeps)),
                                f.tl_len, f.len)
                     ELSE f
    IN  [n \in 1..Len(firsts) |-> mapped(kept(fields[firsts[n]].tag))]

\* HashMap::remove: the map without the tag
FieldMap_remove(map, tag) == SelectSeq(map, LAMBDA f : f.tag # tag)

\* the loop of FieldMapExt::into_path over path[..path.len() - 1] (types.rs
\* 85-92): the field is taken out of curr_map and must be a template, and
\* curr_map stays the map the loop started with (`let Some(_curr_map)`
\* binds a new name)
RECURSIVE into_path_loop(_, _)
into_path_loop(curr_map, prefix) ==
    IF prefix = <<>> THEN [kind |-> "ok", map |-> curr_map, err |-> NoError]
    ELSE LET tag == Head(prefix)
             field == FieldMap_get(curr_map, tag)
         IN  IF field = <<>>
             THEN [kind |-> "err", map |-> <<>>, err |-> NoSuchMember(tag)]
             ELSE IF field[1].value.typ # "Template"
             THEN [kind |-> "err", map |-> <<>>, err |-> WrongType(tag, "Template")]
             ELSE into_path_loop(FieldMap_remove(curr_map, tag), Tail(prefix))

\* FieldMapExt::into_path (types.rs 80-96)
FieldMap_into_path(map, path) ==
    IF path = <<>> THEN DecErr(NoPathRequested)
    ELSE LET walked == into_path_loop(map, SubSeq(path, 1, Len(path) - 1))
             last == path[Len(path)]
         IN  IF walked.kind = "err" THEN DecErr(walked.err)
             ELSE LET field == FieldMap_get(walked.map, last)
                  IN  IF field = <<>> THEN DecErr(NoSuchMember(last))
                      ELSE DecOk(field[1].value)

\* ApplicationTemplate (pse.rs 10-16); an Option is a sequence of 0 or 1
ApplicationTemplate(aid, label, priority, country, iin) ==
    [aid |-> aid, label |-> label, priority |-> priority, country |-> country,
     iin |-> iin]

\* `template.remove(&tag).and_then(|v| v.into_iter().next())
\*      .and_then(Value::into_<typ>)`: the value the map holds for the tag,
\* when it is of the type
TakeAs(tmpl, tag, typ) ==
    LET field == FieldMap_get(tmpl, tag)
    IN  IF field # <<>> /\ field[1].value.typ = typ THEN <<field[1].value>> ELSE <<>>

\* TryFrom<FieldMap> for ApplicationTemplate (pse.rs 18-66); `n as u32`
\* keeps the two low 16-bit limbs of the number
ApplicationTemplate_try_from(tmpl) ==
    LET aid == TakeAs(tmpl, 79, "Binary")
        label == TakeAs(tmpl, 80, "AlphanumericSpecial")
        priority == TakeAs(tmpl, 135, "Binary")
        inner_map == TakeAs(tmpl, 115, "Template")
        country == IF inner_map = <<>> THEN <<>>
                   ELSE TakeAs(inner_map[1].fields, 24405, "Alphabetic")
        iin == IF inner_map = <<>> THEN <<>>
               ELSE TakeAs(FieldMap_remove(inner_map[1].fields, 24405), 66, "Numeric")
    IN  IF aid = <<>> THEN [kind |-> "err", app |-> <<>>, err |-> NoSuchMember(79)]
        ELSE IF label = <<>> THEN [kind |-> "err", app |-> <<>>, err |-> NoSuchMember(80)]
        ELSE [kind |-> "ok", err |-> NoError,
              app |-> ApplicationTemplate(
                  aid[1].bytes, label[1].bytes,
                  IF priority = <<>> \/ priority[1].bytes = <<>> THEN <<>>
                  ELSE <<priority[1].bytes[1]>>,
                  IF country = <<>> THEN <<>> ELSE <<country[1].bytes>>,
                  IF iin = <<>> THEN <<>> ELSE <<SubSeq(iin[1].num, 1, 2)>>)]

\* the loop of list_from_ppse (pse.rs 82-88) over the values taken out
\* under 0x61
RECURSIVE push_applications(_, _)
push_applications(application_maps, applications) ==
    IF application_maps = <<>> THEN SessionOk(applications)
    ELSE LET application_map == Head(application_maps)
         IN  IF application_map.typ # "Template" THEN SessionPanic
             ELSE LET app == ApplicationTemplate_try_from(application_map.fields)
                  IN  IF app.kind = "err" THEN SessionErr(app.err.e, app.err.a)
                      ELSE push_applications(Tail(application_maps),
                                             Append(applications, app.app))

\* list_from_ppse (pse.rs 74-91); the map holds one value under 0x61
list_from_ppse(pse_map) ==
    LET fci == FieldMap_into_path(pse_map, <<165, 48908>>)
    IN  IF fci.kind = "err" THEN SessionErr("Could not find FCI in PPSE", fci.err.a)
        ELSE IF fci.val.typ # "Template" THEN SessionPanic
        ELSE LET found == FieldMap_get(fci.val.fields, 97)
             IN  IF found = <<>> THEN SessionErr("No applications in PPSE", 0)
                 ELSE push_applications(<<found[1].value>>, <<>>)

\* `.as_bytes().chunks_exact(2)` (pse.rs 176-179); the bytes of an
\* alphanumeric value are ASCII, so from_utf8 accepts every chunk
RECURSIVE chunks_exact_2(_)
chunks_exact_2(bytes) ==
    IF Len(bytes) < 2 THEN <<>>
    ELSE <<SubSeq(bytes, 1, 2)>> \o chunks_exact_2(SubSeq(bytes, 3, Len(bytes)))

\* PSEData.languages (pse.rs 171-182)
languages_of(pse_map) ==
    LET s == FieldMap_get_path(pse_map, <<165, 24365>>)
    IN  IF s.kind = "ok" /\ s.val.typ = "Alphanumeric" THEN chunks_exact_2(s.val.bytes)
        ELSE <<>>

\* PSEData (pse.rs 68-72)
PSEData(languages, applications) ==
    [languages |-> languages, applications |-> applications]

\* status words (pse.rs 111, 127, 145)
SwOk == 36864
SwRecordNotFound == 27267

\* what exchange() handed back to its caller: Ok((response, sw)) or Err.
\* The response is held as what tlv::read_field makes of its bytes (the
\* decoder itself is the subject of SpecTlv).
Answer(body, sw) == [kind |-> "ok", body |-> body, sw |-> sw]
NoAnswer == [kind |-> "err", body |-> <<>>, sw |-> 0]

\* `sfi & 0b1110_0000 != 0`
HighBits(sfi) == sfi \div 32

\* the start of list_from_pse (pse.rs 97-106): Ok carries the SFI
sfi_of(pse_map) ==
    LET found == FieldMap_get_path(pse_map, <<165, 136>>)
    IN  IF found.kind = "err" THEN SessionErr("Could not find SFI in PSE", found.err.a)
        ELSE IF found.val.typ # "Binary" \/ found.val.bytes = <<>> THEN SessionPanic
        ELSE IF HighBits(found.val.bytes[1]) # 0
        THEN SessionErr("Invalid SFI", found.val.bytes[1])
        ELSE SessionOk(found.val.bytes[1])

\* the body of `if sfi_sw == 0x9000` (pse.rs 112-124): Ok carries the
\* application template of the record
record_application(sfi_response, keeps) ==
    LET record == sfi_response
    IN  IF record.kind = "err" THEN SessionErr("Failed to parse SFI record", 0)
        ELSE IF record.kind = "panic" THEN SessionPanic
        ELSE IF record.field.value.typ # "Template"
        THEN SessionErr("SFI record wasn't a template!", 0)
        ELSE LET record_map == FieldMapOf(record.field.value.fields, keeps)
                 app_map == FieldMap_into_path(record_map, <<97>>)
             IN  IF app_map.kind = "err" THEN SessionErr(app_map.err.e, app_map.err.a)
                 ELSE IF app_map.val.typ # "Template"
                 THEN SessionErr("WrongType", 97)
                 ELSE LET app == ApplicationTemplate_try_from(app_map.val.fields)
                      IN  IF app.kind = "err"
                          THEN SessionErr("Failed to parse SFI record", app.err.a)
                          ELSE SessionOk(app.app)

\* the last record number list_from_pse asks for (`for rec in 1..16`)
LastRec == 15

\* one turn of `for rec in 1..16` (pse.rs 108-131) on what exchange()
\* returned for READ RECORD f.rec: only 0x9000 and 0x6a83 are looked at
pse_turn(f, answer) ==
    LET stop == [f EXCEPT !.pc = "done"]
    IN  IF answer.kind = "err" THEN [frame |-> stop, outcome |-> SessionErr("exchange", 0)]
        ELSE LET app == IF answer.sw = SwOk
                        THEN record_application(answer.body, f.keeps)
                        ELSE SessionOk(<<>>)
                 applications == IF answer.sw = SwOk /\ app.kind = "ok"
                                 THEN Append(f.applications, app.value)
                                 ELSE f.applications
             IN  IF app.kind # "ok" THEN [frame |-> stop, outcome |-> app]
                 ELSE IF answer.sw = SwRecordNotFound \/ f.rec = LastRec
                 THEN [frame |-> [stop EXCEPT !.applications = applications],
                       outcome |-> SessionOk(PSEData(f.languages, applications))]
                 ELSE [frame |-> [f EXCEPT !.applications = applications,
                                           !.rec = f.rec + 1],
                       outcome |-> SessionNone]

\* "2PAY.SYS.DDF01" and "1PAY.SYS.DDF01" (pse.rs 137-141)
PseName(ppse) ==
    <<IF ppse THEN 50 ELSE 49>> \o <<80, 65, 89, 46, 83, 89, 83, 46, 68, 68, 70, 48, 49>>

\* list_applications up to the first READ RECORD (pse.rs 143-186, 97-106)
\* on what exchange() returned for SELECT
select_pse(f, answer) ==
    LET stop == [f EXCEPT !.pc = "done"]
    IN  IF answer.kind = "err" THEN [frame |-> stop, outcome |-> SessionErr("exchange", 0)]
        ELSE IF answer.sw # SwOk
        THEN [frame |-> stop,
              outcome |-> SessionErr("Failure returned by card while selecting PSE",
                                     answer.sw)]
        ELSE LET root == answer.body
             IN  IF root.kind = "err"
                 THEN [frame |-> stop,
                       outcome |-> SessionErr("Failed to parse Payment System Environment response", 0)]
                 ELSE IF root.kind = "panic" THEN [frame |-> stop, outcome |-> SessionPanic]
                 ELSE IF root.field.tag # 111
                 THEN [frame |-> stop,
                       outcome |-> SessionErr("PSE had incorrect root object", root.field.tag)]
                 ELSE IF root.field.value.typ # "Template"
                 THEN [frame |-> stop,
                       outcome |-> SessionErr("PSE root object was not a template", 0)]
                 ELSE LET pse_map == FieldMapOf(root.field.value.fields, f.keeps)
                          apps == list_from_ppse(pse_map)
                          sfi == sfi_of(pse_map)
                      IN  IF f.ppse
                          THEN [frame |-> stop,
                                outcome |-> IF apps.kind = "ok"
                                            THEN SessionOk(PSEData(<<>>, apps.value))
                                            ELSE apps]
                          ELSE IF sfi.kind # "ok" THEN [frame |-> stop, outcome |-> sfi]
                          ELSE [frame |-> [f EXCEPT !.pc = "loop", !.sfi = sfi.value,
                                                    !.rec = 1,
                                                    !.languages = languages_of(pse_map)],
                                outcome |-> SessionNone]

(***************************************************************************)
(* SpecPse: list_applications on a card that answers from CardAnswers.     *)
(***************************************************************************)
\* what read_field returns: a field, or MessageTooShort for a tag with no
\* length, or MessageTooShort for no bytes at all (the body of a status
\* word that is not 0x9000)
Decoded(field) == [kind |-> "ok", field |-> field, err |-> NoError]
Undecodable == [kind |-> "err", field |-> Field(0, NoValue, 0, 0),
                err |-> MessageTooShort(2, 1)]
Empty == [kind |-> "err", field |-> Field(0, NoValue, 0, 0),
          err |-> MessageTooShort(2, 0)]

\* a string leaf and a numeric leaf of value 840, as the decoder builds them
StringLeaf(tag, typ, bytes) == Field(tag, Value(typ, bytes, <<>>, <<>>), 2, Len(bytes))
Numeric840(tag) == Field(tag, Value("Numeric", <<>>, U128Of840, <<>>), 2, 2)

\* an Application Template 61 { 4F aid, 50 label }; n tells the
\* applications apart
AppEntry(n) ==
    Template(97, <<BinaryLeaf(79, <<160, 0, 0, 0, n>>),
                   StringLeaf(80, "AlphanumericSpecial", <<65, 48 + n>>)>>)
\* one with a priority, a country and an IIN; one without a label
AppEntryFull(n) ==
    Template(97, <<BinaryLeaf(79, <<160, 0, 0, 0, n>>),
                   StringLeaf(80, "AlphanumericSpecial", <<65, 48 + n>>),
                   BinaryLeaf(135, <<1>>),
                   Template(115, <<StringLeaf(24405, "Alphabetic", <<85, 83>>),
                                   Numeric840(66)>>)>>)
AppEntryNoLabel(n) == Template(97, <<BinaryLeaf(79, <<160, 0, 0, 0, n>>)>>)

\* the most responses with a status word other than 0x9000 and 0x6a83 that
\* the card gives in one enumeration
MaxOtherStatus == 1

\* PPSE FCIs: BF0C under A5 with two, one, three applications; BF0C beside
\* A5; BF0C beside A5 with no application, with one lacking its label;
\* no A5; a root that is not 6F; a tag with no length
PpseBodies ==
    { Decoded(Template(111, <<BinaryLeaf(132, <<50>>),
                              Template(165, <<Template(48908, <<AppEntry(1), AppEntry(2)>>)>>)>>)),
      Decoded(Template(111, <<BinaryLeaf(132, <<50>>),
                              Template(165, <<Template(48908, <<AppEntry(1)>>)>>)>>)),
      Decoded(Template(111, <<Template(165, <<Template(48908,
                                  <<AppEntry(3), AppEntryFull(1), AppEntry(2)>>)>>)>>)),
      Decoded(Template(111, <<Template(165, <<>>),
                              Template(48908, <<AppEntry(1), AppEntry(2)>>)>>)),
      Decoded(Template(111, <<Template(165, <<>>), Template(48908, <<AppEntryFull(1)>>)>>)),
      Decoded(Template(111, <<Template(165, <<>>), Template(48908, <<>>)>>)),
      Decoded(Template(111, <<Template(165, <<>>),
                              Template(48908, <<AppEntryNoLabel(1)>>)>>)),
      Decoded(Template(111, <<Template(48908, <<AppEntry(1)>>)>>)),
      Decoded(Template(112, <<>>)),
      Undecodable }

\* PSE FCIs: SFI 1 with languages "enfr"; SFI 2; no SFI; an SFI with a
\* high bit; an empty SFI; a root that is not 6F
PseBodies ==
    { Decoded(Template(111, <<BinaryLeaf(132, <<49>>),
                              Template(165, <<BinaryLeaf(136, <<1>>),
                                              StringLeaf(24365, "Alphanumeric",
                                                         <<101, 110, 102, 114>>)>>)>>)),
      Decoded(Template(111, <<Template(165, <<BinaryLeaf(136, <<2>>)>>)>>)),
      Decoded(Template(111, <<Template(165, <<>>)>>)),
      Decoded(Template(111, <<Template(165, <<BinaryLeaf(136, <<225>>)>>)>>)),
      Decoded(Template(111, <<Template(165, <<BinaryLeaf(136, <<>>)>>)>>)),
      Decoded(Template(112, <<>>)) }

\* what exchange() may return for SELECT
SelectAnswers(ppse) ==
    {NoAnswer, Answer(Empty, 27266)}
        \cup {Answer(body, SwOk) : body \in IF ppse THEN PpseBodies ELSE PseBodies}

\* records of the PSE directory: 70 { 61 { .. } } for record rec; one with
\* two applications (in the first record only); one with no application;
\* one whose application has no label; a root that is not a template; a tag
\* with no length
RecordBodies(rec) ==
    { Decoded(Template(112, <<AppEntry(rec)>>)),
      Decoded(Template(112, IF rec = 1 THEN <<AppEntry(rec), AppEntryFull(0)>>
                            ELSE <<AppEntry(rec)>>)),
      Decoded(Template(112, <<>>)),
      Decoded(Template(112, <<AppEntryNoLabel(rec)>>)),
      Decoded(BinaryLeaf(128, <<0>>)),
      Undecodable }

\* how many responses of a log carry a status word list_from_pse has no
\* branch for
OtherStatus(log) ==
    Cardinality({i \in 1..Len(log) :
                    log[i].answer.kind = "ok"
                        /\ log[i].answer.sw \notin {SwOk, SwRecordNotFound}})

\* what exchange() may return for READ RECORD rec, among them 0x6a82 and
\* 0x6985
RecordAnswers(rec, log) ==
    {NoAnswer, Answer(Empty, SwRecordNotFound)}
        \cup {Answer(body, SwOk) : body \in RecordBodies(rec)}
        \cup (IF OtherStatus(log) < MaxOtherStatus
              THEN {Answer(Empty, 27266), Answer(Empty, 27013)} ELSE {})

\* the state main hands over (main.rs 55-60)
MainState ==
    (40759 :> Value("Binary", <<0, 0, 0, 4>>, <<>>, <<>>))
        @@ (24362 :> Value("Numeric", <<>>, U128Of840, <<>>))

\* the locals of the functions of a card session, before any of them runs
Frame0 ==
    [pc |-> "none", cmd |-> "none", ppse |-> FALSE, keeps |-> "last",
     sfi |-> 0, rec |-> 0, applications |-> <<>>, languages |-> <<>>,
     aid |-> <<>>, state |-> MainState, pdol_encoded |-> <<>>, afl |-> <<>>,
     chunk |-> 0, record |-> 0, card_info |-> <<>>, sda_data |-> <<>>,
     step |-> "none", card |-> <<>>, issuer_key |-> <<>>, printed |-> <<>>,
     exit |-> "none"]

\* an application with an AID of three bytes
AppEntryShort ==
    Template(97, <<BinaryLeaf(79, <<160, 0, 0>>),
                   StringLeaf(80, "AlphanumericSpecial", <<65, 48>>)>>)

\* the card of a run of main, SELECT of the environment: a PPSE with one
\* application beside A5 and with none, a PSE with SFI 1 and with an empty
\* SFI, a status word that is not 0x9000, and no answer
MainSelectAnswers(ppse) ==
    {NoAnswer, Answer(Empty, 27266)}
        \cup (IF ppse
              THEN { Answer(Decoded(Template(111, <<Template(165, <<>>),
                                Template(48908, <<AppEntry(4)>>)>>)), SwOk),
                     Answer(Decoded(Template(111, <<Template(165, <<>>),
                                Template(48908, <<>>)>>)), SwOk) }
              ELSE { Answer(Decoded(Template(111,
                                <<Template(165, <<BinaryLeaf(136, <<1>>)>>)>>)), SwOk),
                     Answer(Decoded(Template(111,
                                <<Template(165, <<BinaryLeaf(136, <<>>)>>)>>)), SwOk) })

\* the card of a run of main, READ RECORD of the directory: up to two
\* records, whose application has an AID under a CA key, under none (in
\* the first record), or of three bytes; the first record may be answered
\* 0x6a82
MainRecordAnswers(rec) ==
    {NoAnswer, Answer(Empty, SwRecordNotFound)}
        \cup (IF rec <= 2
              THEN { Answer(Decoded(Template(112, <<AppEntry(4)>>)), SwOk),
                     Answer(Decoded(Template(112, <<AppEntryShort>>)), SwOk) }
              ELSE {})
        \cup (IF rec = 1
              THEN { Answer(Decoded(Template(112, <<AppEntry(1)>>)), SwOk),
                     Answer(Empty, 27266) }
              ELSE {})

\* the card a function runs against: main (f.cmd set) runs against the
\* smaller one
PseCard(f) ==
    IF f.cmd = "none" THEN SelectAnswers(f.ppse) ELSE MainSelectAnswers(f.ppse)
DirectoryCard(f, log) ==
    IF f.cmd = "none" THEN RecordAnswers(f.rec, log) ELSE MainRecordAnswers(f.rec)

InitPse ==
    /\ frame \in { [Frame0 EXCEPT !.pc = "select", !.ppse = b, !.keeps = k] :
                     b \in BOOLEAN, k \in {"first", "last"} }
    /\ apdus = <<>>
    /\ outcome = SessionNone

\* list_applications sends SELECT (pse.rs 143)
SelectPse ==
    /\ frame.pc = "select"
    /\ \E answer \in PseCard(frame) :
        LET step == select_pse(frame, answer)
        IN  /\ frame' = step.frame
            /\ outcome' = step.outcome
            /\ apdus' = Append(apdus, [cmd |-> select(PseName(frame.ppse)),
                                       answer |-> answer])
    /\ UNCHANGED <<exchangeVars, encodeVars, tlvVars, callVars>>

\* list_from_pse sends READ RECORD (pse.rs 109)
ReadRecord ==
    /\ frame.pc = "loop"
    /\ \E answer \in DirectoryCard(frame, apdus) :
        LET step == pse_turn(frame, answer)
        IN  /\ frame' = step.frame
            /\ outcome' = step.outcome
            /\ apdus' = Append(apdus, [cmd |-> read_record(frame.sfi, frame.rec),
                                       answer |-> answer])
    /\ UNCHANGED <<exchangeVars, encodeVars, tlvVars, callVars>>

(***************************************************************************)
(* read_processing_options (processing_options.rs).                        *)
(***************************************************************************)
\* ADPUCommand::get_processing_options (exchange.rs 76-85)
get_processing_options(pdol) == ADPUCommand(128, 168, 0, 0, pdol, 256)

\* HashMap::extend: the entries of more, and those of map under other tags
FieldMap_extend(map, more) ==
    more \o SelectSeq(map, LAMBDA f : \A i \in 1..Len(more) : more[i].tag # f.tag)

\* afl.chunks_exact(4): the whole 4-byte entries
chunks_exact_4(afl) ==
    [n \in 1..(Len(afl) \div 4) |-> SubSeq(afl, 4 * n - 3, 4 * n)]

\* `afl_fields[0] >> 3`
SfiOf(afl_fields) == afl_fields[1] \div 8

\* the two loops (processing_options.rs 80, 86) from entry number chunk on:
\* the first entry whose range first_record..=last_record is not empty, as
\* a 0- or 1-element sequence
RECURSIVE next_entry(_, _)
next_entry(entries, chunk) ==
    IF chunk > Len(entries) THEN <<>>
    ELSE IF entries[chunk][2] <= entries[chunk][3] THEN <<chunk>>
    ELSE next_entry(entries, chunk + 1)

\* a result of read_processing_options: (card_info, sda_data)
Options(card_info, sda_data) == [card_info |-> card_info, sda_data |-> sda_data]

\* read_processing_options from its start to the GET PROCESSING OPTIONS it
\* sends (processing_options.rs 14-37), on what exchange() returned for
\* SELECT
select_application(f, answer) ==
    LET stop == [f EXCEPT !.pc = "done"]
    IN  IF answer.kind = "err" THEN [frame |-> stop, outcome |-> SessionErr("exchange", 0)]
        ELSE IF answer.sw # SwOk
        THEN [frame |-> stop,
              outcome |-> SessionErr("Failure returned by card while selecting payment app",
                                     answer.sw)]
        ELSE IF answer.body.kind = "err"
        THEN [frame |-> stop, outcome |-> SessionErr(answer.body.err.e, 0)]
        ELSE IF answer.body.kind = "panic" THEN [frame |-> stop, outcome |-> SessionPanic]
        ELSE IF answer.body.field.value.typ # "Template"
        THEN [frame |-> stop, outcome |-> SessionErr("ATS response was not a map!", 0)]
        ELSE LET ats_map == FieldMapOf(answer.body.field.value.fields, f.keeps)
                 pdol == FieldMap_get_path(ats_map, <<165, 40760>>)
                 encoded == IF pdol.kind = "ok" /\ pdol.val.typ = "Dol"
                            THEN Dol_encode(pdol.val.fields[1], <<131>>, f.state)
                            ELSE EncOk(<<131, 0>>)
             IN  IF encoded.kind = "panic" THEN [frame |-> stop, outcome |-> SessionPanic]
                 ELSE [frame |-> [f EXCEPT !.pc = "gpo", !.pdol_encoded = encoded.bytes],
                       outcome |-> SessionNone]

\* Value::get_path_binary (types.rs 295-299) of a one-tag path
Value_get_path_binary(self, path) ==
    LET found == Value_get_path(self, path)
    IN  IF found.kind # "ok" THEN found
        ELSE IF found.val.typ # "Binary" THEN DecErr(WrongType(path[Len(path)], "Binary"))
        ELSE found

\* (aip, afl) of a GET PROCESSING OPTIONS response (processing_options.rs
\* 53-74): Ok carries the pair
aip_and_afl(gpo, keeps) ==
    LET gpo_value == IF gpo.value.typ = "Template"
                     THEN Value("Template", <<>>, <<>>, FieldMapOf(gpo.value.fields, keeps))
                     ELSE gpo.value
        aip == Value_get_path_binary(gpo_value, <<130>>)
        afl == Value_get_path_binary(gpo_value, <<148>>)
    IN  IF gpo.tag = 119
        THEN IF aip.kind # "ok" THEN SessionErr("Failed to read AIP", 0)
             ELSE IF afl.kind # "ok" THEN SessionErr("Failed to read AFL", 0)
             ELSE SessionOk(<<aip.val.bytes, afl.val.bytes>>)
        ELSE IF gpo.tag = 128
        THEN IF gpo.value.typ # "Binary" THEN SessionErr("WrongType", 128)
             ELSE IF Len(gpo.value.bytes) < 6 THEN SessionErr("Failed to read AIP and AFL!", 0)
             ELSE SessionOk(<<SliceTo(gpo.value.bytes, 2), SliceFrom(gpo.value.bytes, 2)>>)
        ELSE SessionErr("Got tag when trying to read AIP and AFL", gpo.tag)

\* read_processing_options from the GET PROCESSING OPTIONS response to the
\* first READ RECORD it sends (processing_options.rs 40-86)
processing_options(f, answer) ==
    LET stop == [f EXCEPT !.pc = "done"]
    IN  IF answer.kind = "err" THEN [frame |-> stop, outcome |-> SessionErr("exchange", 0)]
        ELSE IF answer.sw # SwOk
        THEN [frame |-> stop,
              outcome |-> SessionErr("Failure returned by card while running GET PROCESSING OPTIONS",
                                     answer.sw)]
        ELSE IF answer.body.kind = "err"
        THEN [frame |-> stop,
              outcome |-> SessionErr("Failed to parse processing options", 0)]
        ELSE IF answer.body.kind = "panic" THEN [frame |-> stop, outcome |-> SessionPanic]
        ELSE LET pair == aip_and_afl(answer.body.field, f.keeps)
             IN  IF pair.kind # "ok" THEN [frame |-> stop, outcome |-> pair]
                 ELSE LET afl == pair.value[2]
                          card_info == FieldMap_extend(
                              FieldMap_extend(<<>>, <<BinaryLeaf(130, pair.value[1])>>),
                              <<BinaryLeaf(148, afl)>>)
                          at == next_entry(chunks_exact_4(afl), 1)
                      IN  IF at = <<>>
                          THEN [frame |-> [stop EXCEPT !.afl = afl, !.card_info = card_info],
                                outcome |-> SessionOk(Options(card_info, <<>>))]
                          ELSE [frame |-> [f EXCEPT !.pc = "afl", !.afl = afl,
                                                    !.card_info = card_info,
                                                    !.chunk = at[1],
                                                    !.record = chunks_exact_4(afl)[at[1]][2]],
                                outcome |-> SessionNone]

\* what a record adds to sda_data (processing_options.rs 105-115): Ok
\* carries the bytes
sda_of(bytes, sfi, record, first_record, num_sda) ==
    LET tl == read_tl(bytes)
    IN  IF ~(record - first_record < num_sda) THEN SessionOk(<<>>)
        ELSE IF sfi <= 10
        THEN IF tl.kind = "err" THEN SessionErr(tl.err.e, 0)
             ELSE IF tl.kind = "panic" \/ tl.tl_len > Len(bytes) THEN SessionPanic
             ELSE SessionOk(SliceFrom(bytes, tl.tl_len))
        ELSE IF sfi <= 30 THEN SessionOk(bytes)
        ELSE SessionOk(<<>>)

\* one turn of `for record in first_record..=last_record` inside `for
\* afl_fields in afl.chunks_exact(4)` (processing_options.rs 80-117), on
\* what exchange() returned for READ RECORD
afl_turn(f, answer) ==
    LET stop == [f EXCEPT !.pc = "done"]
        entries == chunks_exact_4(f.afl)
        afl_fields == entries[f.chunk]
        added == sda_of(answer.bytes, SfiOf(afl_fields), f.record, afl_fields[2],
                        afl_fields[4])
        at == IF f.record < afl_fields[3] THEN <<f.chunk>>
              ELSE next_entry(entries, f.chunk + 1)
    IN  IF answer.kind = "err" THEN [frame |-> stop, outcome |-> SessionErr("exchange", 0)]
        ELSE IF answer.sw # SwOk
        THEN [frame |-> stop,
              outcome |-> SessionErr("Failure returned by card while reading sfi record",
                                     answer.sw)]
        ELSE IF answer.body.kind = "err"
        THEN [frame |-> stop, outcome |-> SessionErr(answer.body.err.e, 0)]
        ELSE IF answer.body.kind = "panic" THEN [frame |-> stop, outcome |-> SessionPanic]
        ELSE IF answer.body.field.value.typ # "Template"
        THEN [frame |-> stop, outcome |-> SessionErr("record is not a template", 0)]
        ELSE IF added.kind # "ok" THEN [frame |-> stop, outcome |-> added]
        ELSE LET card_info == FieldMap_extend(
                     f.card_info, FieldMapOf(answer.body.field.value.fields, f.keeps))
                 sda_data == f.sda_data \o added.value
             IN  IF at = <<>>
                 THEN [frame |-> [stop EXCEPT !.card_info = card_info,
                                              !.sda_data = sda_data],
                       outcome |-> SessionOk(Options(card_info, sda_data))]
                 ELSE [frame |-> [f EXCEPT !.card_info = card_info,
                                           !.sda_data = sda_data,
                                           !.chunk = at[1],
                                           !.record = IF at[1] = f.chunk THEN f.record + 1
                                                      ELSE entries[at[1]][2]],
                       outcome |-> SessionNone]

(***************************************************************************)
(* SpecGpo: read_processing_options on a card that answers from the sets   *)
(* below.                                                                  *)
(***************************************************************************)
\* the bytes of a tag and of a length, and of a field, as a card sends them
WireTag(tag) == IF tag >= 256 THEN U16BE(tag) ELSE <<tag>>
WireLen(n) == IF n < 128 THEN <<n>> ELSE <<129, n>>
RECURSIVE Wire(_), WireAll(_)
Wire(field) ==
    LET body == IF field.value.typ = "Template" THEN WireAll(field.value.fields)
                ELSE field.value.bytes
    IN  WireTag(field.tag) \o WireLen(Len(body)) \o body
WireAll(fields) == IF fields = <<>> THEN <<>> ELSE Wire(Head(fields)) \o WireAll(Tail(fields))

\* a response with its bytes, for the callers that read the bytes again
AnswerOf(field, sw) ==
    [kind |-> "ok", body |-> Decoded(field), sw |-> sw, bytes |-> Wire(field)]

\* the most entries in an AFL
MaxAfl == 2

\* AFL entries (SFI << 3, first record, last record, records in the SDA
\* stream): SFI 1, two records, the first signed; SFI 10, records 2..3,
\* more signed than there are; SFI 11, one record; SFI 30 with the low bits
\* set, two records, both signed; SFI 31; SFI 0; an empty range; SFI 3 with
\* none signed
AflEntries ==
    { <<8, 1, 2, 1>>, <<80, 2, 3, 3>>, <<88, 1, 1, 1>>, <<247, 1, 2, 2>>,
      <<248, 1, 1, 1>>, <<0, 1, 1, 1>>, <<16, 2, 1, 1>>, <<24, 1, 1, 0>> }

RECURSIVE Flatten(_)
Flatten(ss) == IF ss = <<>> THEN <<>> ELSE Head(ss) \o Flatten(Tail(ss))

\* AFLs: up to MaxAfl entries, and one with bytes after the last entry
Afls ==
    { Flatten(es) : es \in SeqsUpTo(AflEntries, MaxAfl) } \cup { <<88, 1, 1, 1, 8, 1>> }

\* what exchange() may return for SELECT of the application: an FCI with
\* and without a PDOL (a binary value, as tlv/elements.rs types 9F38)
ApplicationAnswers ==
    { NoAnswer, Answer(Empty, 27266), Answer(Undecodable, SwOk),
      Answer(Decoded(BinaryLeaf(128, <<0>>)), SwOk),
      Answer(Decoded(Template(111, <<BinaryLeaf(132, <<160, 0, 0, 0, 4, 16, 16>>),
                                     Template(165, <<>>)>>)), SwOk),
      Answer(Decoded(Template(111, <<Template(165,
                 <<BinaryLeaf(40760, <<159, 55, 4>>)>>)>>)), SwOk) }

\* what exchange() may return for GET PROCESSING OPTIONS: format 1 (tag 80)
\* with each AFL, and too short; format 2 (tag 77), also without an AFL and
\* with an AFL that is no binary value; another tag
GpoAnswers ==
    { NoAnswer, Answer(Empty, 27013), Answer(Undecodable, SwOk),
      Answer(Decoded(BinaryLeaf(128, <<57, 0, 8, 1, 1>>)), SwOk),
      Answer(Decoded(Template(119, <<BinaryLeaf(130, <<57, 0>>),
                                     BinaryLeaf(148, <<8, 1, 2, 2>>)>>)), SwOk),
      Answer(Decoded(Template(119, <<BinaryLeaf(130, <<57, 0>>),
                                     BinaryLeaf(148, <<>>)>>)), SwOk),
      Answer(Decoded(Template(119, <<BinaryLeaf(130, <<57, 0>>)>>)), SwOk),
      Answer(Decoded(Template(119, <<BinaryLeaf(148, <<8, 1, 1, 1>>)>>)), SwOk),
      Answer(Decoded(Template(112, <<>>)), SwOk) }
        \cup { Answer(Decoded(BinaryLeaf(128, <<57, 0>> \o afl)), SwOk) : afl \in Afls }

\* what exchange() may return for READ RECORD of (sfi, record): two
\* records 70 { .. } that differ, the second with a long length; a record
\* that is no template
AflAnswers(sfi, record) ==
    { NoAnswer, [kind |-> "ok", body |-> Empty, sw |-> 27267, bytes |-> <<>>],
      AnswerOf(Template(112, <<BinaryLeaf(143, <<sfi>>), BinaryLeaf(87, <<record, 7>>)>>), SwOk),
      AnswerOf(Template(112, <<BinaryLeaf(144, Fill(130, record))>>), SwOk),
      AnswerOf(BinaryLeaf(128, <<0>>), SwOk) }

\* the records of the card of a run of main: record 1 holds the CA key
\* index, the issuer certificate, the issuer exponent and the PAN; record 2
\* the ICC certificate, the ICC exponent and a DDOL asking for 9F37
CardRecord(record) ==
    IF record = 1
    THEN Template(112, <<BinaryLeaf(143, <<5>>), BinaryLeaf(144, Fill(176, 90)),
                         BinaryLeaf(40754, <<3>>),
                         Field(90, DigitString(<<4, 1, 1, 1, 1, 1, 1, 1>>), 2, 4)>>)
    ELSE Template(112, <<BinaryLeaf(40774, Fill(140, 90)), BinaryLeaf(40775, <<3>>),
                         Field(40777, Value("Dol", <<>>, <<>>,
                                            <<Dol(<<DOLEntry(40759, 4)>>, 4)>>), 3, 3)>>)

\* the card of a run of main: SELECT of the application
MainApplicationAnswers ==
    { NoAnswer, Answer(Empty, 27266),
      Answer(Decoded(Template(111, <<Template(165, <<>>)>>)), SwOk) }

\* GET PROCESSING OPTIONS: SFI 1, records 1..2, the first signed; an AFL
\* with an empty range; a response that is too short
MainGpoAnswers ==
    { NoAnswer, Answer(Empty, 27013),
      Answer(Decoded(BinaryLeaf(128, <<57, 0, 8, 1, 2, 1>>)), SwOk),
      Answer(Decoded(BinaryLeaf(128, <<57, 0, 16, 2, 1, 1>>)), SwOk),
      Answer(Decoded(BinaryLeaf(128, <<57, 0>>)), SwOk) }

\* READ RECORD: the record, or one with nothing in it
MainAflAnswers(record) ==
    { NoAnswer, [kind |-> "ok", body |-> Empty, sw |-> 27267, bytes |-> <<>>],
      AnswerOf(CardRecord(record), SwOk),
      AnswerOf(Template(112, <<>>), SwOk) }

\* INTERNAL AUTHENTICATE: format 1, format 2 with and without 9F4B,
\* another tag, nothing but a status word
MainAuthenticateAnswers ==
    { NoAnswer, Answer(Empty, 27013),
      Answer(Decoded(BinaryLeaf(128, <<1, 2>>)), SwOk),
      Answer(Decoded(Template(119, <<BinaryLeaf(40779, <<1, 2>>)>>)), SwOk),
      Answer(Decoded(Template(119, <<>>)), SwOk),
      Answer(Decoded(Template(112, <<>>)), SwOk) }

ApplicationCard(f) ==
    IF f.cmd = "none" THEN ApplicationAnswers ELSE MainApplicationAnswers
GpoCard(f) == IF f.cmd = "none" THEN GpoAnswers ELSE MainGpoAnswers
RecordCard(f, sfi) ==
    IF f.cmd = "none" THEN AflAnswers(sfi, f.record) ELSE MainAflAnswers(f.record)

InitGpo ==
    /\ frame \in { [Frame0 EXCEPT !.pc = "select_app", !.keeps = k,
                                  !.aid = <<160, 0, 0, 0, 4, 16, 16>>] :
                     k \in {"first", "last"} }
    /\ apdus = <<>>
    /\ outcome = SessionNone

\* read_processing_options sends SELECT (processing_options.rs 14)
SelectApplication ==
    /\ frame.pc = "select_app"
    /\ \E answer \in ApplicationCard(frame) :
        LET step == select_application(frame, answer)
        IN  /\ frame' = step.frame
            /\ outcome' = step.outcome
            /\ apdus' = Append(apdus, [cmd |-> select(frame.aid), answer |-> answer])
    /\ UNCHANGED <<exchangeVars, encodeVars, tlvVars, callVars>>

\* read_processing_options sends GET PROCESSING OPTIONS
\* (processing_options.rs 40)
GetProcessingOptions ==
    /\ frame.pc = "gpo"
    /\ \E answer \in GpoCard(frame) :
        LET step == processing_options(frame, answer)
        IN  /\ frame' = step.frame
            /\ outcome' = step.outcome
            /\ apdus' = Append(apdus, [cmd |-> get_processing_options(frame.pdol_encoded),
                                       answer |-> answer])
    /\ UNCHANGED <<exchangeVars, encodeVars, tlvVars, callVars>>

\* read_processing_options sends READ RECORD (processing_options.rs 87)
ReadAflRecord ==
    /\ frame.pc = "afl"
    /\ LET sfi == SfiOf(chunks_exact_4(frame.afl)[frame.chunk])
       IN  \E answer \in RecordCard(frame, sfi) :
            LET step == afl_turn(frame, answer)
            IN  /\ frame' = step.frame
                /\ outcome' = step.outcome
                /\ apdus' = Append(apdus, [cmd |-> read_record(sfi, frame.record),
                                           answer |-> answer])
    /\ UNCHANGED <<exchangeVars, encodeVars, tlvVars, callVars>>

(***************************************************************************)
(* main (main.rs): show-pse, get-key and test-transaction on one card.     *)
(* frame.card is what has been done with the card handle, in order.        *)
(***************************************************************************)
HandleEvent(op, disposition, ok) == [op |-> op, disposition |-> disposition, ok |-> ok]

\* the handle is still connected: no disconnect of it has succeeded
Held(card) ==
    card # <<>> /\ \A i \in 1..Len(card) : card[i].op = "connect" \/ ~card[i].ok

\* a pcsc::Card goes out of scope (main.rs 74, 101, 120, or an earlier
\* `?`): Drop for pcsc::Card disconnects the handle with
\* Disposition::ResetCard and ignores the result
drop_card(card) ==
    IF Held(card) THEN Append(card, HandleEvent("drop", "ResetCard", TRUE)) ELSE card

\* disconnect, were main to ask for Disposition::LeaveCard
disconnect_LeaveCard(card, disposition, ok) ==
    IF ok THEN Append(card, HandleEvent("disconnect", "LeaveCard", TRUE))
    ELSE Append(card, HandleEvent("disconnect", "LeaveCard", FALSE))

\* `card.disconnect(pcsc::Disposition::ResetCard).is_err()` (main.rs 69, 97,
\* 116): disconnect takes the Card; when it fails the Card comes back in the
\* error, which is dropped at the end of the condition
disconnect(card, disposition, ok) ==
    IF ok THEN Append(card, HandleEvent("disconnect", disposition, TRUE))
    ELSE drop_card(Append(card, HandleEvent("disconnect", disposition, FALSE)))

\* main returns (how = "ok", "err") or unwinds (how = "panic"): its locals,
\* the Card among them, are dropped
leave(f, how) ==
    [f EXCEPT !.pc = "exited", !.exit = how, !.card = drop_card(f.card)]

\* hex::decode of the RIDs of ca_keys.rs 36-42, and the name a RID has there
hex_decode ==
    ("A000000004" :> <<160, 0, 0, 0, 4>>) @@ ("A000000152" :> <<160, 0, 0, 1, 82>>)
RidOf(bytes) ==
    IF \E name \in DOMAIN hex_decode : hex_decode[name] = bytes
    THEN CHOOSE name \in DOMAIN hex_decode : hex_decode[name] = bytes
    ELSE "other"

\* a FieldMap as the function from its tags to its values
AsMap(map) ==
    [t \in {map[i].tag : i \in 1..Len(map)} |-> FieldMap_get(map, t)[1].value]

\* get_card (main.rs 134-146): a panic when the readers cannot be listed,
\* an error when there is no such reader or connect fails, else the Card
get_card(f, how) ==
    IF how = "connected"
    THEN [f EXCEPT !.pc = "select", !.step = "list_applications",
                   !.card = <<HandleEvent("connect", "none", TRUE)>>]
    ELSE leave(f, how)

\* main after list_applications returned res (show-pse: main.rs 66-73,
\* with reset the result of disconnect; get-key: 76-86; test-transaction:
\* 103-109)
after_list_applications(f, res, reset) ==
    IF res.kind = "panic" THEN leave(f, "panic")
    ELSE IF f.cmd = "ShowPSE"
    THEN leave([f EXCEPT !.printed = Append(@, res),
                         !.card = disconnect(@, "ResetCard", reset)],
               res.kind)
    ELSE IF res.kind = "err" THEN leave(f, "err")
    ELSE IF res.value.applications = <<>> THEN leave(f, "err")
    ELSE IF f.cmd = "GetKey" /\ Len(res.value.applications[1].aid) < 5
    THEN leave(f, "err")
    ELSE [f EXCEPT !.pc = "select_app", !.step = "read_processing_options",
                   !.aid = res.value.applications[1].aid]

\* main after read_processing_options returned res (main.rs 88-89, 111-112)
after_read_processing_options(f, res) ==
    IF res.kind # "ok" THEN leave(f, res.kind)
    ELSE IF f.cmd = "GetKey" THEN [f EXCEPT !.pc = "issuer", !.step = "issuer"]
    ELSE [f EXCEPT !.pc = "transaction", !.step = "do_transaction"]

\* get-key, main.rs 91-92: recovered is what the issuer certificate is
\* raised to
issuer_step(f, recovered) ==
    LET issuer_key == IssuerPublicKey_from_options(RidOf(SliceTo(f.aid, 5)),
                                                   AsMap(f.card_info), recovered)
    IN  IF issuer_key.kind # "ok" THEN leave(f, issuer_key.kind)
        ELSE [f EXCEPT !.pc = "icc", !.step = "icc",
                       !.issuer_key = <<issuer_key.val>>,
                       !.printed = Append(@, issuer_key.val)]

\* get-key, main.rs 93-100: recovered is what the ICC certificate is raised
\* to, reset the result of disconnect
icc_step(f, recovered, reset) ==
    LET icc_key == ICCPublicKey_from_options(f.issuer_key[1], f.sda_data,
                                             AsMap(f.card_info), recovered)
    IN  IF icc_key.kind # "ok" THEN leave(f, icc_key.kind)
        ELSE leave([f EXCEPT !.printed = Append(@, icc_key.val),
                             !.card = disconnect(@, "ResetCard", reset)],
                   "ok")

\* Value::get_dol, as test-transaction uses it: the DOL under the tag
get_dol(options, tag) ==
    IF tag \in DOMAIN options /\ options[tag].typ = "Dol"
    THEN <<options[tag].fields[1]>> ELSE <<>>

\* ADPUCommand::internal_authenticate
internal_authenticate(data) == ADPUCommand(0, 136, 0, 0, data, 256)

\* the Signed Dynamic Authentication Data of an INTERNAL AUTHENTICATE
\* response (transaction.rs 21-35): Ok or Err
sdad_of(body) ==
    IF body.kind = "err" THEN "err"
    ELSE IF body.kind = "panic" THEN "panic"
    ELSE IF body.field.tag = 119
    THEN IF body.field.value.typ = "Template"
            /\ \E i \in 1..Len(body.field.value.fields) :
                   /\ body.field.value.fields[i].tag = 40779
                   /\ body.field.value.fields[i].value.typ = "Binary"
         THEN "ok" ELSE "err"
    ELSE IF body.field.tag = 128
    THEN IF body.field.value.typ = "Binary" THEN "ok" ELSE "err"
    ELSE "err"

\* test-transaction from the response to INTERNAL AUTHENTICATE on
\* (transaction.rs 21-40, main.rs 112-120)
after_authenticate(f, answer, reset) ==
    IF answer.kind = "err" THEN leave(f, "err")
    ELSE IF sdad_of(answer.body) # "ok" THEN leave(f, sdad_of(answer.body))
    ELSE leave([f EXCEPT !.card = disconnect(@, "ResetCard", reset)], "ok")

(***************************************************************************)
(* SpecMain: one run of main with a subcommand that connects to a card.    *)
(***************************************************************************)
\* what the certificates of CardRecord recover to: with the digest of what
\* the card sent, and with another
IssuerRecoveries ==
    { RecoveredData(176, 106, IssuerFields(IssuerDefault), <<3>>, ok, 188) :
        ok \in BOOLEAN }
IccRecoveries(f) ==
    LET k == Len(f.issuer_key[1].modulus)
        cert == [ICCDefault EXCEPT !.k = k, !.modulus_len = k - 42]
    IN  { RecoveredData(k, 106, ICCFields(cert),
                        ICCSigned(<<>>, <<3>>, f.sda_data, AsMap(f.card_info)),
                        ok, 188) : ok \in BOOLEAN }

InitMain ==
    /\ frame \in { [Frame0 EXCEPT !.pc = "get_card", !.cmd = c, !.ppse = b, !.keeps = k] :
                     c \in {"ShowPSE", "GetKey", "TestTransaction"},
                     b \in BOOLEAN, k \in {"first", "last"} }
    /\ apdus = <<>>
    /\ outcome = SessionNone

\* main.rs 65, 76, 103
GetCard ==
    /\ frame.pc = "get_card"
    /\ \E how \in {"connected", "err", "panic"} : frame' = get_card(frame, how)
    /\ UNCHANGED <<apdus, outcome, exchangeVars, encodeVars, tlvVars, callVars>>

\* list_applications returns to main
ListApplicationsReturns ==
    /\ frame.pc = "done"
    /\ frame.step = "list_applications"
    /\ \E reset \in BOOLEAN : frame' = after_list_applications(frame, outcome, reset)
    /\ outcome' = SessionNone
    /\ UNCHANGED <<apdus, exchangeVars, encodeVars, tlvVars, callVars>>

\* read_processing_options returns to main
ProcessingOptionsReturn ==
    /\ frame.pc = "done"
    /\ frame.step = "read_processing_options"
    /\ frame' = after_read_processing_options(frame, outcome)
    /\ outcome' = SessionNone
    /\ UNCHANGED <<apdus, exchangeVars, encodeVars, tlvVars, callVars>>

\* IssuerPublicKey::from_options and the print of the key
VerifyIssuerKey ==
    /\ frame.pc = "issuer"
    /\ \E recovered \in IssuerRecoveries : frame' = issuer_step(frame, recovered)
    /\ UNCHANGED <<apdus, outcome, exchangeVars, encodeVars, tlvVars, callVars>>

\* ICCPublicKey::from_options, the print of the key and the disconnect
VerifyIccKey ==
    /\ frame.pc = "icc"
    /\ \E recovered \in IccRecoveries(frame), reset \in BOOLEAN :
        frame' = icc_step(frame, recovered, reset)
    /\ UNCHANGED <<apdus, outcome, exchangeVars, encodeVars, tlvVars, callVars>>

\* do_transaction (transaction.rs 11-41) and the disconnect after it
DoTransaction ==
    /\ frame.pc = "transaction"
    /\ LET ddol == get_dol(AsMap(frame.card_info), 40777)
           data == IF ddol = <<>> THEN EncPanic ELSE Dol_encode(ddol[1], <<>>, frame.state)
       IN  IF ddol = <<>> \/ data.kind = "panic"
           THEN /\ frame' = leave(frame, IF ddol = <<>> THEN "err" ELSE "panic")
                /\ apdus' = apdus
           ELSE \E answer \in MainAuthenticateAnswers, reset \in BOOLEAN :
                  /\ frame' = after_authenticate(frame, answer, reset)
                  /\ apdus' = Append(apdus, [cmd |-> internal_authenticate(data.bytes),
                                             answer |-> answer])
    /\ UNCHANGED <<outcome, exchangeVars, encodeVars, tlvVars, callVars>>

(***************************************************************************)
(* The specifications.                                                     *)
(***************************************************************************)
Init == InitExchange /\ IdleEncode /\ IdleTlv /\ IdleCall /\ IdleSession

Next ==
    \E p \in Callers :
        \/ Begin(p)
        \/ BeginFails(p)
        \/ First(p)
        \/ Reissue(p)
        \/ NoReissue(p)
        \/ Continue(p)
        \/ Return(p)

Spec == Init /\ [][Next]_vars

\* every caller is a running thread and every transmit returns: a caller
\* that can take a step of exchange() takes one
Fairness ==
    \A p \in Callers :
        WF_vars(Begin(p) \/ BeginFails(p) \/ First(p) \/ Reissue(p)
                    \/ NoReissue(p) \/ Continue(p) \/ Return(p))

SpecFair == Spec /\ Fairness

InitEnc == InitEncode /\ IdleExchange /\ IdleTlv /\ IdleCall /\ IdleSession

NextEnc == Encode

SpecEncode == InitEnc /\ [][NextEnc]_vars

InitTlv == InitTlvRun /\ IdleExchange /\ IdleEncode /\ IdleCall /\ IdleSession

NextTlv == ReadTl \/ ReadField \/ ReadTemplate

SpecTlv == InitTlv /\ [][NextTlv]_vars

InitValue == InitValueRun /\ IdleExchange /\ IdleEncode /\ IdleCall /\ IdleSession

NextValue == DecodeAlphanumericSpecial \/ DecodeNumeric \/ DecodeCompressedNumeric

SpecValue == InitValue /\ [][NextValue]_vars

InitPathRun == IdleTlv /\ IdleExchange /\ IdleEncode /\ InitPath /\ IdleSession

NextPath == GetPath \/ GetPathInMap

SpecPath == InitPathRun /\ [][NextPath]_vars

InitDolRun == InitDol /\ IdleExchange /\ IdleEncode /\ IdleTlv /\ IdleSession

NextDol == EncodeDol \/ EncodeDolWrapped

SpecDol == InitDolRun /\ [][NextDol]_vars

InitChainRun == InitChain /\ IdleExchange /\ IdleEncode /\ IdleSession

NextChain == DateYm \/ VerifyIssuer \/ VerifyICC

SpecChain == InitChainRun /\ [][NextChain]_vars

InitPseRun == InitPse /\ IdleExchange /\ IdleEncode /\ IdleTlv /\ IdleCall

NextPse == SelectPse \/ ReadRecord

SpecPse == InitPseRun /\ [][NextPse]_vars

InitGpoRun == InitGpo /\ IdleExchange /\ IdleEncode /\ IdleTlv /\ IdleCall

NextGpo == SelectApplication \/ GetProcessingOptions \/ ReadAflRecord

SpecGpo == InitGpoRun /\ [][NextGpo]_vars

InitMainRun == InitMain /\ IdleExchange /\ IdleEncode /\ IdleTlv /\ IdleCall

NextMain ==
    \/ GetCard
    \/ SelectPse
    \/ ReadRecord
    \/ ListApplicationsReturns
    \/ SelectApplication
    \/ GetProcessingOptions
    \/ ReadAflRecord
    \/ ProcessingOptionsReturn
    \/ VerifyIssuerKey
    \/ VerifyIccKey
    \/ DoTransaction

SpecMain == InitMainRun /\ [][NextMain]_vars

(***************************************************************************)
(* Reading the histories of exchange.                                      *)
(***************************************************************************)
\* the APDUs caller p transmitted, in order
SentBy(p) == SelectSeq(wire, LAMBDA e : e.by = p)

\* a response that carries SW1 SW2
WellFormed(d) == Len(d) >= 2
SW1Of(d) == d[Len(d) - 1]
SW2Of(d) == d[Len(d)]
BodyOf(d) == SubSeq(d, 1, Len(d) - 2)

\* the bodies of the responses rs, concatenated in arrival order
RECURSIVE ConcatBodies(_)
ConcatBodies(rs) ==
    IF rs = <<>> THEN <<>> ELSE BodyOf(Head(rs)) \o ConcatBodies(Tail(rs))

IsPrefix(a, b) == Len(a) <= Len(b) /\ SubSeq(b, 1, Len(a)) = a

\* the k-th response to p carries a status, and its SW1 is s
RespHasSW1(p, k, s) == WellFormed(rcvd[p][k]) /\ SW1Of(rcvd[p][k]) = s

(***************************************************************************)
(* C1. In exchange, a GET RESPONSE `00 C0 00 00 SW2` (SW2 of the most      *)
(* recent response) follows every response with SW1 = 0x61; a response     *)
(* with any other SW1 is the last one, and exchange then returns the       *)
(* bodies of all responses concatenated in arrival order with the status   *)
(* SW1<<8 | SW2 of the last response.                                      *)
(*                                                                         *)
(* C1_FirstNon61Ends is the claim as worded: no transmission follows a     *)
(* response whose SW1 is not 0x61.  An initial response with SW1 = 0x6C    *)
(* is followed by the reissued command, so it fails.                       *)
(* C1_ContinuationLoop is the claim with that one response excepted.       *)
(***************************************************************************)
C1_FirstNon61Ends ==
    \A p \in Callers : \A k \in 1..Len(rcvd[p]) :
        (WellFormed(rcvd[p][k]) /\ SW1Of(rcvd[p][k]) # 97)
            => Len(SentBy(p)) <= k

C1_ContinuationLoop ==
    \A p \in Callers :
        LET s == SentBy(p)
            r == rcvd[p]
            n == Len(r)
        IN  \* after a 0x61 response the next APDU is GET RESPONSE with its SW2
            /\ \A k \in 2..Len(s) :
                  RespHasSW1(p, k - 1, 97)
                      => s[k].apdu = <<0, 192, 0, 0, SW2Of(r[k - 1])>>
            \* a 0x61 response never ends the exchange: a GET RESPONSE goes out
            /\ (n > 0 /\ RespHasSW1(p, n, 97) /\ pc[p] = "done")
                  => (Len(s) = n + 1 /\ result[p].kind = "err")
            \* any other SW1 ends it, the initial 0x6C response excepted
            /\ \A k \in 1..n :
                  (WellFormed(r[k]) /\ SW1Of(r[k]) # 97
                        /\ ~(k = 1 /\ SW1Of(r[k]) = 108))
                      => (Len(s) = k /\ n = k
                            /\ (pc[p] = "done" => result[p].kind = "ok"))
            \* the result: all bodies in arrival order, the last status
            /\ result[p].kind = "ok"
                  => /\ n > 0
                     /\ \A k \in 1..n : WellFormed(r[k])
                     /\ result[p].body = ConcatBodies(r)
                     /\ result[p].status = SW1Of(r[n]) * 256 + SW2Of(r[n])

\* 40 bytes + 61 10, then 16 bytes + 90 00, in small: two 0x61 responses and
\* a final 90 00, five body bytes in all
C1_Witness ==
    /\ result[1].kind = "ok"
    /\ Len(rcvd[1]) = 3
    /\ rcvd[1][1] = <<2, 3, 97, 16>>
    /\ rcvd[1][2] = <<1, 97, 0>>
    /\ rcvd[1][3] = <<2, 3, 144, 0>>
    /\ result[1].body = <<2, 3, 1, 2, 3>>
    /\ result[1].status = 36864
    /\ SentBy(1)[2].apdu = <<0, 192, 0, 0, 16>>
    /\ SentBy(1)[3].apdu = <<0, 192, 0, 0, 0>>

(***************************************************************************)
(* C2. When the first response has SW1 = 0x6C, exchange sends the same     *)
(* command again (header and data unchanged) with Ne = that response's     *)
(* SW2, exactly once and as its second transmission (before any GET        *)
(* RESPONSE), and the body of the first response stays in front of the     *)
(* body of the reissued command's response.                                *)
(***************************************************************************)
\* the bytes of c up to the end of its data field: header, Lc, data
UpToData(c) == 4 + (IF Len(c.data) = 0 THEN 0 ELSE IF Len(c.data) <= 255 THEN 1 ELSE 3)
                 + Len(c.data)

C2_ReissueOnce ==
    \A p \in Callers :
        (Len(rcvd[p]) >= 1 /\ RespHasSW1(p, 1, 108)) =>
            LET s == SentBy(p)
                r == rcvd[p]
                c == command[p]
                ne == SW2Of(r[1])
            IN  \* it is sent: past the `if`, there is a second transmission
                /\ pc[p] \in {"loop", "done"} => Len(s) >= 2
                \* the second transmission is the command with Ne = SW2
                /\ Len(s) >= 2 =>
                      /\ SubSeq(s[2].apdu, 1, UpToData(c))
                            = SubSeq(s[1].apdu, 1, UpToData(c))
                      /\ SubSeq(s[2].apdu, 1, 4) = <<c.cla, c.ins, c.p1, c.p2>>
                      /\ SubSeq(s[2].apdu, UpToData(c) + 1, Len(s[2].apdu))
                            = (IF ne = 0 THEN <<>> ELSE <<ne>>)
                \* once: everything after it is a GET RESPONSE
                /\ \A k \in 3..Len(s) :
                      /\ SubSeq(s[k].apdu, 1, 4) = <<0, 192, 0, 0>>
                      /\ RespHasSW1(p, k - 1, 97)
                \* the first body stays in front of the second
                /\ (Len(r) >= 2 /\ WellFormed(r[2]))
                      => IsPrefix(BodyOf(r[1]) \o BodyOf(r[2]), response[p])

\* 6C 10 with a body, the reissue answered 61 00, one GET RESPONSE, 90 00
C2_Witness ==
    /\ result[1].kind = "ok"
    /\ command[1] = select(<<160, 0>>)
    /\ rcvd[1] = << <<1, 108, 16>>, <<2, 3, 97, 0>>, <<1, 144, 0>> >>
    /\ SentBy(1)[1].apdu = <<0, 164, 4, 0, 2, 160, 0, 0>>
    /\ SentBy(1)[2].apdu = <<0, 164, 4, 0, 2, 160, 0, 16>>
    /\ SentBy(1)[3].apdu = <<0, 192, 0, 0, 0>>
    /\ result[1].body = <<1, 2, 3, 1>>

(***************************************************************************)
(* C3. Every transmission of one exchange call is made while the caller    *)
(* holds the card transaction; the transaction is taken before the first   *)
(* transmit and is no longer held once exchange has returned (with a       *)
(* value, an error or by unwinding); the transmissions of one call are     *)
(* therefore contiguous on the wire, none of another caller in between.    *)
(***************************************************************************)
C3_TransactionScope ==
    /\ \A i \in 1..Len(wire) : wire[i].holder = wire[i].by
    /\ \A p \in Callers :
          /\ pc[p] \in {"first", "resize", "loop"} <=> txOwner = p
          /\ pc[p] \in {"off", "idle"} => SentBy(p) = <<>>
    /\ \A i \in 1..Len(wire) : \A k \in i..Len(wire) :
          wire[i].by = wire[k].by
              => \A j \in i..k : wire[j].by = wire[i].by

\* both callers have transmitted, one of them twice, and both have returned
C3_Witness ==
    /\ pc[1] = "done" /\ pc[2] = "done"
    /\ Len(SentBy(1)) = 2
    /\ Len(SentBy(2)) = 1
    /\ wire[1].by = 2
    /\ result[1].kind = "ok"
    /\ txOwner = 0

(***************************************************************************)
(* C4. For |data| <= 65535 and Ne <= 65536, encode returns CLA INS P1 P2,  *)
(* Lc (nothing, one byte, or 00 and two big-endian bytes), the data, and   *)
(* Le (nothing, one byte Ne mod 256, or Ne mod 65536 in two big-endian     *)
(* bytes, preceded by 00 unless Lc has the three-byte form).               *)
(***************************************************************************)
InEncodeDomain(c) == Len(c.data) <= 65535 /\ c.ne <= 65536

C4_Lc(n) ==
    IF n = 0 THEN <<>>
    ELSE IF n <= 255 THEN <<n>>
    ELSE <<0, n \div 256, n % 256>>

C4_Le(n, ne) ==
    IF ne = 0 THEN <<>>
    ELSE IF ne <= 256 THEN <<ne % 256>>
    ELSE (IF n > 255 THEN <<>> ELSE <<0>>)
            \o <<(ne % 65536) \div 256, (ne % 65536) % 256>>

C4_EncodeLayout ==
    (encOut # EncNotRun /\ InEncodeDomain(encCmd)) =>
        /\ encOut.some
        /\ encOut.bytes =
              <<encCmd.cla, encCmd.ins, encCmd.p1, encCmd.p2>>
                  \o C4_Lc(Len(encCmd.data)) \o encCmd.data
                  \o C4_Le(Len(encCmd.data), encCmd.ne)

\* 256 data bytes and Ne = 65536: extended Lc, two-byte Le 00 00, no 00 before
C4_Witness ==
    /\ encOut.some
    /\ Len(encCmd.data) = 256
    /\ encCmd.ne = 65536
    /\ Len(encOut.bytes) = 4 + 3 + 256 + 2
    /\ SubSeq(encOut.bytes, 5, 7) = <<0, 1, 0>>
    /\ SubSeq(encOut.bytes, 264, 265) = <<0, 0>>

(***************************************************************************)
(* C5. encode returns None whenever |data| > 65535 or Ne > 65536, and      *)
(* exchange called with such a command returns an error without having     *)
(* transmitted a byte.                                                     *)
(***************************************************************************)
C5_OutOfDomainFails ==
    /\ (encOut # EncNotRun /\ ~InEncodeDomain(encCmd)) => ~encOut.some
    /\ \A p \in Callers :
          ~InEncodeDomain(command[p])
              => /\ SentBy(p) = <<>>
                 /\ pc[p] = "done" => result[p].kind = "err"

(***************************************************************************)
(* C6. encode is injective on its domain: no other command with            *)
(* |data| <= 65535 and Ne <= 65536 has the encoding of this one.           *)
(***************************************************************************)
EncDomain == {c \in EncCommands : InEncodeDomain(c)}

EncodingOf(c) == encode(c).bytes

C6_EncodeInjective ==
    (encOut # EncNotRun /\ encCmd \in EncDomain) =>
        \A d \in EncDomain : d # encCmd => EncodingOf(d) # encOut.bytes

\* a near miss: another command of the domain with an encoding of the same
\* length that agrees on the header and the first byte after it
C6_Witness ==
    /\ encOut.some
    /\ encCmd \in EncDomain
    /\ encCmd.data = <<1>>
    /\ encCmd.ne = 1
    /\ \E d \in EncDomain :
          /\ d.data = <<>>
          /\ d.ne = 257
          /\ Len(EncodingOf(d)) = Len(encOut.bytes)
          /\ SubSeq(EncodingOf(d), 1, 4) = SubSeq(encOut.bytes, 1, 4)

(***************************************************************************)
(* The TLV prefix and the template decoder (SpecTlv).                      *)
(***************************************************************************)
\* the tag bytes a buffer's first byte announces
TagBytes(buf) == IF buf[1] % 32 = 31 THEN 2 ELSE 1

\* the big-endian value of the n bytes of buf that start at index i
RECURSIVE BigEndian(_, _, _)
BigEndian(buf, i, n) ==
    IF n = 0 THEN 0 ELSE buf[i] * (256 ^ (n - 1)) + BigEndian(buf, i + 1, n - 1)

\* C7: on a buffer that holds a whole prefix, read_tl returns the tag (two
\* bytes big-endian exactly when the low five bits of the first byte are all
\* ones, else one byte), the length (the next byte when its high bit is
\* clear, else the big-endian value of the N bytes after it, N being its low
\* seven bits) and the prefix byte count, tag bytes + 1 + N; it fails with
\* LengthTooLong(4, N) when N > 4; `80 00` gives (0x80, 0, 2), `7F 99 02 ..`
\* gives (0x7F99, 2, 3) and `80 81 FF` gives (0x80, 0xFF, 3).
C7_ReadTl ==
    tlvOp = "read_tl" =>
        /\ (raw # <<>> /\ Len(raw) >= TagBytes(raw) + 1) =>
              LET T == TagBytes(raw)
                  tag == BigEndian(raw, 1, T)
                  L == raw[T + 1]
                  N == L - 128
              IN  /\ L < 128 => tlvOut = TlOk(tag, L, T + 1)
                  /\ (L >= 128 /\ N > 4) => tlvOut = TlErr(LengthTooLong(4, N))
                  /\ (L >= 128 /\ N <= 4 /\ Len(raw) >= T + 1 + N) =>
                        tlvOut = TlOk(tag, BigEndian(raw, T + 2, N), T + 1 + N)
        /\ raw = <<128, 0>> => tlvOut = TlOk(128, 0, 2)
        /\ (Len(raw) >= 3 /\ SliceTo(raw, 3) = <<127, 153, 2>>) =>
              tlvOut = TlOk(32665, 2, 3)
        /\ raw = <<128, 129, 255>> => tlvOut = TlOk(128, 255, 3)

\* a two-byte tag followed by a four-byte long-form length has been read
C7_Witness ==
    /\ tlvOp = "read_tl"
    /\ raw = <<127, 153, 132, 127, 255, 255, 255>>
    /\ tlvOut = TlOk(32665, 2147483647, 7)

\* read_tl on a buffer that ends inside the prefix, the long-form cases
\* being those with N <= maxN: MessageTooShort(needed, got) with got the
\* buffer length and needed 2, tag bytes + 1 or tag bytes + 1 + N; no
\* panic, and a returned prefix lies within the buffer
ShortBufferFails(maxN) ==
    tlvOp = "read_tl" =>
        LET got == Len(raw)
        IN  /\ tlvOut.kind # "panic"
            /\ tlvOut.kind = "ok" => tlvOut.tl_len <= got
            /\ raw = <<>> => tlvOut = TlErr(MessageTooShort(2, got))
            /\ (raw # <<>> /\ got < TagBytes(raw) + 1) =>
                  tlvOut = TlErr(MessageTooShort(TagBytes(raw) + 1, got))
            /\ (raw # <<>> /\ got >= TagBytes(raw) + 1) =>
                  LET T == TagBytes(raw)
                      N == raw[T + 1] - 128
                  IN  (raw[T + 1] >= 128 /\ N <= maxN /\ got < T + 1 + N) =>
                          tlvOut = TlErr(MessageTooShort(T + 1 + N, got))

\* C8 as stated: read_tl fails with MessageTooShort(needed, got) for every
\* buffer that ends before the tag bytes, the first length byte or all N
\* long-form length bytes are present, whatever N is (N is at most 127),
\* and never reads past the end of the buffer.
C8_MessageTooShortAnyN == ShortBufferFails(127)

\* C8: read_tl fails with MessageTooShort(needed, got) for every buffer that
\* ends before the tag bytes, the first length byte, or, when N <= 4, all N
\* long-form length bytes are present (with N > 4 it is LengthTooLong that
\* is returned, whether or not the N bytes are there); got is the buffer
\* length, needed is 2 for an empty buffer, tag bytes + 1, or tag bytes +
\* 1 + N; read_tl never reads past the end of the buffer.
C8_MessageTooShort == ShortBufferFails(4)

\* a buffer with a two-byte tag and one of its two length bytes missing
C8_Witness ==
    /\ tlvOp = "read_tl"
    /\ Len(raw) = 4
    /\ raw[3] = 130
    /\ tlvOut = TlErr(MessageTooShort(5, 4))

\* C9: read_field returns a decoded field or a DecodeError for every byte
\* string and never aborts, also when the declared length of a TLV, at top
\* level or inside a template, is larger than the bytes that remain.
C9_ReadFieldNeverAborts ==
    tlvOp = "read_field" => tlvOut.kind \in {"ok", "err"}

RECURSIVE EncodedSizes(_)
\* the sum of prefix bytes + value bytes over a sequence of fields
EncodedSizes(fields) ==
    IF fields = <<>> THEN 0
    ELSE Head(fields).tl_len + Head(fields).len + EncodedSizes(Tail(fields))

RECURSIVE SizesAddUp(_, _)
\* a decoded value of declared length len: if it is a template, its fields'
\* sizes sum to len, and so on for the templates among its fields
SizesAddUp(value, len) ==
    value.typ = "Template" =>
        /\ EncodedSizes(value.fields) = len
        /\ \A i \in 1..Len(value.fields) :
              SizesAddUp(value.fields[i].value, value.fields[i].len)

\* C10: whenever a template decodes successfully, the encoded sizes (prefix
\* bytes + value bytes) of its inner fields sum to exactly the template's
\* declared length, at every depth; no last field extends beyond the
\* template's value.
C10_TemplateSizes ==
    /\ (tlvOp = "read_field" /\ tlvOut.kind = "ok") =>
          /\ SizesAddUp(tlvOut.field.value, tlvOut.field.len)
          /\ tlvOut.field.tl_len + tlvOut.field.len <= Len(raw)
    /\ (tlvOp = "template" /\ tlvOut.kind = "ok") =>
          SizesAddUp(tlvOut.val, Len(raw))

\* a template of two fields, and a template within a template, have decoded
C10_Witness ==
    /\ tlvOp = "read_field"
    /\ tlvOut.kind = "ok"
    /\ tlvOut.field.value.typ = "Template"
    /\ Len(tlvOut.field.value.fields) = 2
    /\ tlvOut.field.value.fields[1].value.typ = "Template"
    /\ Len(tlvOut.field.value.fields[1].value.fields) = 1

(***************************************************************************)
(* The value decoders (SpecValue).                                         *)
(***************************************************************************)
\* the first index of s whose element is outside good, 0 if there is none
FirstOutside(s, good) ==
    IF \A i \in 1..Len(s) : s[i] \in good THEN 0
    ELSE CHOOSE i \in 1..Len(s) :
            s[i] \notin good /\ \A j \in 1..(i - 1) : s[j] \in good

\* alphanumeric_special with accepted as the set of bytes it lets through:
\* a string of accepted bytes comes back as it is, any other fails with
\* UnsupportedChar(AlphanumericSpecial, b), b the first byte not accepted
SpecialAccepts(accepted) ==
    tlvOp = "alphanumeric_special" =>
        LET i == FirstOutside(raw, accepted)
        IN  IF i = 0
            THEN /\ tlvOut.kind = "ok"
                 /\ tlvOut.val.typ = "AlphanumericSpecial"
                 /\ tlvOut.val.bytes = raw
            ELSE /\ tlvOut.kind = "err"
                 /\ tlvOut.err = UnsupportedChar("AlphanumericSpecial", raw[i])

\* C11 as stated: the alphanumeric-special decoder accepts a byte string
\* exactly when every byte is in 0x20..0x7E, returning the same characters;
\* otherwise it fails with UnsupportedChar(AlphanumericSpecial, b), b the
\* first byte outside that range.
C11_PrintableOnly == SpecialAccepts(32..126)

\* C11: the alphanumeric-special decoder accepts a byte string exactly when
\* every byte is in 0x20..0x7E or in 0x80..0xFF, returning the characters
\* with those codes; otherwise it fails with
\* UnsupportedChar(AlphanumericSpecial, b), b the first byte that is below
\* 0x20 or is 0x7F.
C11_AlphanumericSpecial == SpecialAccepts((32..255) \ {127})

\* a string with DEL after a printable character and a byte above 0x7F
C11_Witness ==
    /\ tlvOp = "alphanumeric_special"
    /\ raw = <<65, 128, 127>>
    /\ tlvOut.kind = "err"
    /\ tlvOut.err.a = 127

\* the nibbles of buf, left to right, the high one of each byte first
NibblesOf(buf) ==
    [i \in 1..(2 * Len(buf)) |->
        IF i % 2 = 1 THEN buf[(i + 1) \div 2] \div 16 ELSE buf[i \div 2] % 16]

\* s without its leading zeros
RECURSIVE StripZeros(_)
StripZeros(s) ==
    IF s # <<>> /\ Head(s) = 0 THEN StripZeros(Tail(s)) ELSE s

\* the decimal digits of limbs (highest first), none for zero
RECURSIVE DecimalDigits(_)
DecimalDigits(limbs) ==
    IF \A i \in 1..Len(limbs) : limbs[i] = 0 THEN <<>>
    ELSE LET r == DivSmall(limbs, 10, 0)
         IN  DecimalDigits(SliceTo(r, Len(limbs))) \o <<r[Len(limbs) + 1]>>

\* C12: for every byte string whose nibbles are all 0..9 the numeric decoder
\* returns exactly the integer the nibbles denote as decimal digits, left to
\* right; it fails with BadBcd(d) for the first nibble d in 10..15; for no
\* input length does it return another value (no wrap-around of the 128-bit
\* accumulator) or abort.
C12_NumericExact ==
    tlvOp = "numeric" =>
        LET ds == NibblesOf(raw)
            i == FirstOutside(ds, 0..9)
        IN  IF i = 0
            THEN /\ tlvOut.kind = "ok"
                 /\ DecimalDigits(Reversed(tlvOut.val.num)) = StripZeros(ds)
            ELSE /\ tlvOut.kind = "err"
                 /\ tlvOut.err = BadBcd(ds[i])

\* the same for the values that fit in 128 bits (at most 38 digits after
\* the leading zeros)
NumericExactUpTo38 ==
    Len(StripZeros(NibblesOf(raw))) <= 38 => C12_NumericExact

\* C13: the digit-string (compressed numeric) decoder fails with
\* LengthTooLong(10, n) for inputs of n > 10 bytes; otherwise it reads the
\* nibbles left to right, high nibble first, returns the digits 0..9 seen
\* before the first 0xF nibble, stops at that 0xF, and fails with BadBcd(d)
\* on the first nibble d in 10..14 that comes before any 0xF.
C13_CompressedNumeric ==
    tlvOp = "compressed_numeric" =>
        IF Len(raw) > 10
        THEN tlvOut = DecErr(LengthTooLong(10, Len(raw)))
        ELSE LET ds == NibblesOf(raw)
                 f == FirstOutside(ds, 0..14)
                 before == IF f = 0 THEN ds ELSE SubSeq(ds, 1, f - 1)
                 i == FirstOutside(before, 0..9)
             IN  IF i = 0
                 THEN tlvOut = DecOk(Value("DigitString", before, <<>>, <<>>))
                 ELSE tlvOut = DecErr(BadBcd(before[i]))

\* ten bytes that hold nineteen digits and the 0xF pad have decoded
C13_Witness ==
    /\ tlvOp = "compressed_numeric"
    /\ Len(raw) = 10
    /\ raw[10] = 31
    /\ tlvOut.kind = "ok"
    /\ Len(tlvOut.val.bytes) = 19

(***************************************************************************)
(* Path lookup (SpecPath).                                                 *)
(***************************************************************************)
\* one step of descent from the result r of a lookup that ended under the
\* tag `under` (0 at the root): into the first child tagged t, in wire order
Descend(r, t, under) ==
    IF r.kind = "err" THEN r
    ELSE IF r.val.typ # "Template" THEN DecErr(WrongType(under, "Template"))
    ELSE LET fs == r.val.fields
             at == {i \in 1..Len(fs) : fs[i].tag = t}
         IN  IF at = {} THEN DecErr(NoSuchMember(t))
             ELSE DecOk(fs[CHOOSE i \in at : \A j \in at : i <= j].value)

\* the descent along p, one tag at a time
RECURSIVE Walk(_, _, _)
Walk(r, under, p) ==
    IF p = <<>> THEN r ELSE Walk(Descend(r, Head(p), under), Head(p), Tail(p))

Front(p) == SubSeq(p, 1, Len(p) - 1)
Last(p) == p[Len(p)]
Under(p) == IF Len(p) = 1 THEN 0 ELSE p[Len(p) - 1]

\* the function that ran, applied to another path
Lookup(p) ==
    IF called = "TLVValue::get_path" THEN TLVValue_get_path(args.self, p)
    ELSE Value_get_path(args.self, p)

\* getPath(p ++ [t]) is getPath(p) followed by the descent into the first
\* child tagged t
LookupIsPrefixThenDescend ==
    args.path # <<>> =>
        ret = Descend(Lookup(Front(args.path)), Last(args.path), Under(args.path))

\* C15 as stated: getPath([]) on V yields V itself, getPath([t]) is that
\* followed by the descent into the first child tagged t, and getPath(p ++
\* [t]) is getPath(p) followed by that descent, for every p.
C15_PrefixThenDescend ==
    called # "none" =>
        /\ args.path = <<>> => ret = DecOk(args.self)
        /\ LookupIsPrefixThenDescend

\* C15: in TLVValue::get_path, getPath([]) on V yields V itself and
\* getPath(p ++ [t]) is getPath(p) followed by the descent into the first
\* child tagged t, for every p; in Value::get_path (FieldMapExt::get_path),
\* getPath([]) on a template fails with NoPathRequested, getPath([t]) is the
\* descent from V itself, and getPath(p ++ [t]) is getPath(p) followed by
\* the descent for every p that is not empty.
C15_PathCompose ==
    /\ called = "TLVValue::get_path" =>
          /\ args.path = <<>> => ret = DecOk(args.self)
          /\ LookupIsPrefixThenDescend
    /\ called = "Value::get_path" =>
          /\ (args.path = <<>> /\ args.self.typ = "Template") =>
                ret = DecErr(NoPathRequested)
          /\ Len(args.path) = 1 =>
                ret = Descend(DecOk(args.self), args.path[1], 0)
          /\ Len(args.path) > 1 => LookupIsPrefixThenDescend

\* a two-tag lookup has reached a value inside a nested template
C15_Witness ==
    /\ called = "Value::get_path"
    /\ Len(args.path) = 2
    /\ ret.kind = "ok"
    /\ ret.val.typ = "Binary"

(***************************************************************************)
(* Dol::encode (SpecDol).                                                  *)
(***************************************************************************)
\* the sizes of the first n entries, added up
RECURSIVE SizesBefore(_, _)
SizesBefore(entries, n) ==
    IF n = 0 THEN 0 ELSE SizesBefore(entries, n - 1) + entries[n].size

\* entry i of the DOL emits zeroes: its tag is not in the state, or its
\* value is a template or a DOL
EmitsZeroes(i) ==
    LET tag == args.dol.entries[i].tag
    IN  tag \in DOMAIN args.data => args.data[tag].typ \in {"Template", "Dol"}

\* C16: for every DOL D and provider state S, Dol::encode without a wrap tag
\* returns exactly (sum of the entry sizes of D) bytes, in which entry i
\* occupies the size_i bytes after those of entries 1..i-1, and the bytes of
\* every entry whose tag is absent from S, or whose value is a template or
\* a DOL, are all zero.
C16_EncodeSizes ==
    (called = "Dol::encode" /\ args.tag = <<>>) =>
        LET es == args.dol.entries
        IN  /\ ret.kind = "ok"
            /\ Len(ret.bytes) = SizesBefore(es, Len(es))
            /\ \A i \in 1..Len(es) :
                  EmitsZeroes(i) =>
                      \A k \in (SizesBefore(es, i - 1) + 1)..SizesBefore(es, i) :
                          ret.bytes[k] = 0

\* C17: for every DOL of total size n and every wrap tag T, the output of
\* Dol::encode with the wrap tag starts with the minimal BER-TLV tag/length
\* encoding of (T, n): read_tl on the output returns (T, n, p), p being the
\* tag bytes plus the fewest length bytes that hold n, and the output has
\* exactly p + n bytes; so for n = 0, 127, 128, 255, 256 and 65536.
C17_WrapReadsBack ==
    (called = "Dol::encode" /\ args.tag # <<>> /\ ret.kind = "ok") =>
        LET n == args.dol.size
            T == args.tag[1]
            p == (IF T >= 256 THEN 2 ELSE 1)
                 + (IF n < 128 THEN 1 ELSE IF n < 256 THEN 2
                    ELSE IF n < 65536 THEN 3 ELSE 4)
        IN  /\ read_tl(ret.bytes) = TlOk(T, n, p)
            /\ Len(ret.bytes) = p + n

\* the digits that packed bytes hold before their first 0xF nibble
PackedDigits(bytes) ==
    LET ds == NibblesOf(bytes)
        f == FirstOutside(ds, 0..14)
    IN  IF f = 0 THEN ds ELSE SubSeq(ds, 1, f - 1)

\* p is a digit string and a prefix of s
DigitPrefix(p, s) ==
    /\ \A i \in 1..Len(p) : p[i] \in 0..9
    /\ Len(p) <= Len(s)
    /\ \A i \in 1..Len(p) : s[i] = p[i]

\* the card's options hold the binary tags in `binaries` and a PAN, and its
\* certificate (tag cert) is as long as the parent key, of k <= 248 bytes
StepsOneAndTwoPass(binaries, cert, k) ==
    /\ \A t \in binaries : t \in DOMAIN args.options /\ args.options[t].typ = "Binary"
    /\ 90 \in DOMAIN args.options /\ args.options[90].typ = "DigitString"
    /\ Len(args.options[cert].bytes) = k
    /\ k <= 248

\* the recovered data has room for the digest, has 0x6A first, then the
\* format, with both algorithm bytes 01 in front of the key length, and
\* holds the digest of all its bytes between the first and the digest
\* followed by signed
UnderstoodAndHashed(k, format, algs, signed) ==
    LET r == args.recovered
    IN  /\ Len(r) >= 22
        /\ r[1] = 106 /\ r[2] = format /\ r[algs + 1] = 1 /\ r[algs + 2] = 1
        /\ SubSeq(r, k - 20, k - 1) = Sha1(SubSeq(r, 2, k - 21) \o signed)

\* the bytes of an optional binary tag
BytesOf(tag) ==
    IF tag \in DOMAIN args.options /\ args.options[tag].typ = "Binary"
    THEN args.options[tag].bytes ELSE <<>>

IssuerReachesPan ==
    /\ StepsOneAndTwoPass({143, 144, 40754}, 144, Len(args.recovered))
    /\ args.options[143].bytes # <<>>
    /\ KeyId(args.rid, args.options[143].bytes[1]) \in DOMAIN CA_KEYS
    /\ UnderstoodAndHashed(Len(args.recovered), 2, 11, BytesOf(146) \o BytesOf(40754))

ICCReachesPan ==
    /\ StepsOneAndTwoPass({40774, 40775}, 40774, Len(args.issuer_key.modulus))
    /\ UnderstoodAndHashed(Len(args.recovered), 4, 17,
                           BytesOf(40776) \o BytesOf(40775) \o args.sda_data
                           \o (IF 40778 \in DOMAIN args.options THEN BytesOf(130) ELSE <<>>))

\* C18: IssuerPublicKey::from_options returns a key only if the digits
\* packed in recovered[2..6] before the 0xF padding are a prefix of the PAN
\* of tag 5A, and ICCPublicKey::from_options only if the digits packed in
\* recovered[2..12] are that PAN; a certificate that passes the steps before
\* the PAN step and does not bind the PAN so ends in UnmatchedPAN.
C18_PanBinding ==
    /\ called = "IssuerPublicKey::from_options" =>
          LET iin == PackedDigits(SubSeq(args.recovered, 3, 6))
          IN  /\ ret.kind = "ok" =>
                    /\ DigitPrefix(iin, args.options[90].bytes)
                    /\ ret.val.iin = iin
              /\ (IssuerReachesPan /\ ~DigitPrefix(iin, args.options[90].bytes)) =>
                    ret = VerErr(UnmatchedPAN)
    /\ called = "ICCPublicKey::from_options" =>
          LET pan == PackedDigits(SubSeq(args.recovered, 3, 12))
              binds == DigitPrefix(pan, args.options[90].bytes)
                       /\ Len(pan) = Len(args.options[90].bytes)
          IN  /\ ret.kind = "ok" => (binds /\ ret.val.pan = pan)
              /\ (ICCReachesPan /\ ~binds) => ret = VerErr(UnmatchedPAN)

\* an issuer certificate with the IIN 411111 and the padding FF was accepted
\* for a PAN of eight digits
C18_Witness ==
    /\ called = "IssuerPublicKey::from_options"
    /\ ret.kind = "ok"
    /\ ret.val.iin = <<4, 1, 1, 1, 1, 1>>
    /\ SubSeq(args.recovered, 3, 6) = <<65, 17, 17, 255>>
    /\ Len(args.options[90].bytes) = 8

\* C19: every recovered certificate that the Issuer or ICC verification
\* accepts has first byte 0x6A and last byte 0xBC, and its 20 bytes before
\* the last equal the SHA-1 digest over recovered[1 .. k-21], the remainder,
\* the exponent and the extra signed data; one whose last byte is not 0xBC
\* is never accepted.
C19_HeaderTrailerHash ==
    (called \in {"IssuerPublicKey::from_options", "ICCPublicKey::from_options"}
     /\ ret.kind = "ok") =>
        LET r == args.recovered
            k == Len(r)
            signed == IF called = "IssuerPublicKey::from_options"
                      THEN BytesOf(146) \o BytesOf(40754)
                      ELSE BytesOf(40776) \o BytesOf(40775) \o args.sda_data
                           \o (IF 40778 \in DOMAIN args.options THEN BytesOf(130) ELSE <<>>)
        IN  /\ r[1] = 106
            /\ r[k] = 188
            /\ SubSeq(r, k - 20, k - 1) = Sha1(SubSeq(r, 2, k - 21) \o signed)

\* the part of C19 about the first byte and the digest
C19_HeaderAndHash ==
    (called \in {"IssuerPublicKey::from_options", "ICCPublicKey::from_options"}
     /\ ret.kind = "ok") =>
        /\ args.recovered[1] = 106
        /\ IF called = "IssuerPublicKey::from_options"
           THEN IssuerReachesPan ELSE ICCReachesPan

\* the last day of a month
LastDay(year, month) ==
    CASE month \in {1, 3, 5, 7, 8, 10, 12} -> 31
      [] month \in {4, 6, 9, 11} -> 30
      [] month = 2 ->
            IF year % 400 = 0 \/ (year % 4 = 0 /\ year % 100 # 0) THEN 29 ELSE 28

\* a byte of two decimal digits
IsBcd(byte) == (byte \div 16) <= 9 /\ (byte % 16) <= 9
BcdValue(byte) == 10 * (byte \div 16) + (byte % 16)

\* MMYY gives the last day of month MM of 2000 + YY, or InvalidData
ExpiryOf(mmyy) ==
    IF IsBcd(mmyy[1]) /\ IsBcd(mmyy[2]) /\ BcdValue(mmyy[1]) \in 1..12
    THEN VerOk(NaiveDate(2000 + BcdValue(mmyy[2]), BcdValue(mmyy[1]),
                         LastDay(2000 + BcdValue(mmyy[2]), BcdValue(mmyy[1]))))
    ELSE VerErr(InvalidData)

\* C20: for every expiry field MMYY with a BCD month MM in 01..12 and a BCD
\* year YY, date_ym gives, and the returned key records, the last day of
\* month MM of year 2000+YY; a month outside 01..12 or a byte that is not
\* BCD gives InvalidData.
C20_ExpiryLastDay ==
    /\ called = "date_ym" => ret = ExpiryOf(args.mmyy)
    /\ (called = "IssuerPublicKey::from_options" /\ ret.kind = "ok") =>
          VerOk(ret.val.expiry) = ExpiryOf(SubSeq(args.recovered, 7, 8))
    /\ (called = "ICCPublicKey::from_options" /\ ret.kind = "ok") =>
          VerOk(ret.val.expiry) = ExpiryOf(SubSeq(args.recovered, 13, 14))

\* the part of C20 that the code keeps: December, and what is no date
C20_DecemberAndInvalid ==
    (called = "date_ym"
     /\ (ExpiryOf(args.mmyy).kind = "err" \/ args.mmyy[1] = 18)) =>
        ret = ExpiryOf(args.mmyy)

\* the byte length of the parent key of the certificate just verified
ParentLen ==
    IF called = "ICCPublicKey::from_options" THEN Len(args.issuer_key.modulus)
    ELSE Len(args.recovered)

\* 4 for an issuer certificate, 10 for an ICC certificate
PanLen == IF called = "ICCPublicKey::from_options" THEN 10 ELSE 4

\* C21: a recovered certificate gets past the SHA-1 check only under a
\* parent key of k >= pan_len + 11 + 21 bytes; under a shorter parent key
\* the verification ends in a VerifyError, with no read out of range.
C21_ShortParent ==
    called \in {"IssuerPublicKey::from_options", "ICCPublicKey::from_options"} =>
        /\ (ret.kind = "ok" \/ (ret.kind = "err" /\ ret.err.e \in {"UnmatchedPAN", "InvalidData"}))
              => PanLen + 11 + 21 <= ParentLen
        /\ ParentLen < PanLen + 11 + 21 => ret.kind = "err"

\* the part of C21 that the code keeps: under a parent key that is long
\* enough nothing is read out of range
C21_LongParentNoPanic ==
    (called \in {"IssuerPublicKey::from_options", "ICCPublicKey::from_options"}
     /\ PanLen + 11 + 21 <= ParentLen) => ret.kind # "panic"

\* the remainder the card supplies with the certificate just verified
RemainderBytes ==
    IF called = "ICCPublicKey::from_options" THEN BytesOf(40776) ELSE BytesOf(146)

\* the bytes that C26 names for the child modulus
ModulusBytes ==
    LET r == args.recovered
        L == r[10 + PanLen]
    IN  IF L + 32 + PanLen <= ParentLen
        THEN SubSeq(r, 12 + PanLen, 11 + PanLen + L)
        ELSE SubSeq(r, 12 + PanLen, ParentLen - 21) \o RemainderBytes

\* C26: with L the declared child-modulus length byte, k the parent modulus
\* length and pan_len 4 (Issuer) or 10 (ICC), the returned modulus is the
\* big-endian integer of recovered[11+pan_len .. 11+pan_len+L] when
\* L <= k - 32 - pan_len, and otherwise that of recovered[11+pan_len .. k-21]
\* followed by the remainder bytes.
C26_ModulusReconstruction ==
    (called \in {"IssuerPublicKey::from_options", "ICCPublicKey::from_options"}
     /\ ret.kind = "ok") =>
        ret.val.modulus = StripZeros(ModulusBytes)

\* the part of C26 that the code keeps: a parent key long enough for the
\* fixed fields, and a modulus that fits the 2048 bits of a U2048
C26_ModulusThatFits ==
    (called \in {"IssuerPublicKey::from_options", "ICCPublicKey::from_options"}
     /\ ret.kind = "ok" /\ PanLen + 32 <= ParentLen /\ Len(ModulusBytes) <= 256) =>
        ret.val.modulus = StripZeros(ModulusBytes)

\* error e inside the fields tagged path[1], path[2], ..., outermost first
RECURSIVE Wrapped(_, _)
Wrapped(path, e) ==
    IF path = <<>> THEN e
    ELSE [e |-> "TemplateInternal", a |-> Head(path), b |-> 0, st |-> "",
          inner |-> <<Wrapped(Tail(path), e)>>]

\* where decoding the field at the start of buf fails: the tags of the
\* fields entered, and the error of the value or of the prefix met there.
\* FailureAmong is the same for the first failing field of a template's value.
RECURSIVE FailureAt(_), FailureAmong(_)
FailureAt(buf) ==
    LET tl == read_tl(buf)
    IN  IF tl.kind = "err" THEN [path |-> <<>>, e |-> tl.err]
        ELSE LET v == SubSeq(buf, tl.tl_len + 1, tl.tl_len + tl.len)
             IN  IF ElementTyp(tl.tag) = "Template"
                 THEN [path |-> <<tl.tag>> \o FailureAmong(v).path, e |-> FailureAmong(v).e]
                 ELSE [path |-> <<tl.tag>>, e |-> decode_with_type(ElementTyp(tl.tag), v).err]

FailureAmong(v) ==
    LET first == read_field(v)
    IN  IF first.kind = "ok"
        THEN FailureAmong(SliceFrom(v, first.field.tl_len + first.field.len))
        ELSE FailureAt(v)

\* C27: when the value of a field tagged T fails to decode with error e,
\* read_field returns TemplateInternal(T, e); for a failure inside nested
\* templates the error is one TemplateInternal per enclosing field,
\* outermost tag first, down to the field whose value or whose inner prefix
\* failed, around the error met there.
C27_TagPath ==
    (tlvOp = "read_field" /\ tlvOut.kind = "err") =>
        /\ tlvOut.err = Wrapped(FailureAt(raw).path, FailureAt(raw).e)
        /\ FailureAt(raw).e.e # "TemplateInternal"

\* a bad character three fields deep came back under the three tags
C27_Witness ==
    /\ tlvOp = "read_field"
    /\ raw = <<112, 5, 97, 3, 80, 1, 127>>
    /\ tlvOut.kind = "err"
    /\ tlvOut.err = Wrapped(<<112, 97, 80>>, UnsupportedChar("AlphanumericSpecial", 127))

\* C29: a card response shorter than 2 bytes at any step (the initial
\* command, the 0x6C reissue, a GET RESPONSE) makes exchange return an
\* error; SW1 SW2 are never taken from such a response.
C29_ShortResponseIsError ==
    \A p \in Callers :
        (pc[p] = "done" /\ \E k \in 1..Len(rcvd[p]) : ~WellFormed(rcvd[p][k]))
            => result[p].kind = "err"

\* the part of C29 that the code keeps: the first response
C29_ShortFirstResponseIsError ==
    \A p \in Callers :
        (pc[p] = "done" /\ Len(rcvd[p]) >= 1 /\ ~WellFormed(rcvd[p][1]))
            => result[p] = Err("Received message too short")

\* how many of the responses rs have SW1 = 0x61
RECURSIVE Count61(_)
Count61(rs) ==
    IF rs = <<>> THEN 0
    ELSE (IF WellFormed(Head(rs)) /\ SW1Of(Head(rs)) = 97 THEN 1 ELSE 0)
         + Count61(Tail(rs))

\* C30: exchange bounds the number of GET RESPONSE commands by nothing of
\* its own. A caller inside exchange eventually leaves it, given that every
\* transmit returns and the card at last answers with an SW1 other than
\* 0x61 (or not at all); it returns after exactly 1 + (1 if the first
\* response had SW1 = 0x6C) + (the number of responses with SW1 = 0x61)
\* transmissions; and after a response with SW1 = 0x61 its next step is a
\* transmission, never a return.
C30_NoBoundOfItsOwn ==
    /\ [](\A p \in Callers :
             result[p].kind = "ok" =>
                 Len(SentBy(p)) = 1 + (IF SW1Of(rcvd[p][1]) = 108 THEN 1 ELSE 0)
                                    + Count61(rcvd[p]))
    /\ [][\A p \in Callers :
             (pc[p] = "loop" /\ sw1[p] = 97 /\ <<pc[p], result[p], sw1[p], sw2[p]>>' # <<pc[p], result[p], sw1[p], sw2[p]>>)
                 => (Len(wire') = Len(wire) + 1 /\ result'[p].kind # "ok")]_vars
    /\ \A p \in Callers :
          (pc[p] \in {"first", "resize", "loop"}) ~> (pc[p] = "done")

\* the card answered 0x61 as long as it answered at all but once, and the
\* caller sent a GET RESPONSE after each
C30_Witness ==
    /\ result[1].kind = "ok"
    /\ Len(SentBy(1)) = MaxTx
    /\ Count61(rcvd[1]) = MaxTx - 1


(***************************************************************************)
(* Application discovery.                                                  *)
(***************************************************************************)
\* the READ RECORD exchanges of the history, in order
ReadRecords == SelectSeq(apdus, LAMBDA e : e.cmd.ins = 178)

\* the application templates of the records answered with 0x9000, in order
RECURSIVE AppsOf(_)
AppsOf(reads) ==
    IF reads = <<>> THEN <<>>
    ELSE LET e == Head(reads)
             app == record_application(e.answer.body, frame.keeps)
         IN  (IF e.answer.kind = "ok" /\ e.answer.sw = SwOk /\ app.kind = "ok"
              THEN <<app.value>> ELSE <<>>) \o AppsOf(Tail(reads))

\* the parts of C24 about the order of the READ RECORDs, 0x9000 and 0x6a83
C24_AscendingAndStop ==
    (frame.pc \in {"loop", "done"} /\ ~frame.ppse) =>
        /\ Len(ReadRecords) <= 15
        /\ \A i \in 1..Len(ReadRecords) :
            /\ ReadRecords[i].cmd = read_record(frame.sfi, i)
            /\ (ReadRecords[i].answer.kind = "ok"
                    /\ ReadRecords[i].answer.sw = SwRecordNotFound)
                => i = Len(ReadRecords)
        /\ frame.applications = AppsOf(ReadRecords)
        /\ outcome.kind = "ok" => outcome.value.applications = AppsOf(ReadRecords)

\* C24: the PSE enumeration sends READ RECORD for records 1, 2, ... in
\* ascending order and at most up to 15; a 0x9000 response adds the
\* record's Application Template to the result; the first 0x6a83 response
\* stops the enumeration and no READ RECORD follows it; any other status
\* word ends the enumeration with an error that carries that status.
C24_PseEnumeration ==
    /\ C24_AscendingAndStop
    /\ (frame.pc \in {"loop", "done"} /\ ~frame.ppse) =>
        \A i \in 1..Len(ReadRecords) :
            (ReadRecords[i].answer.kind = "ok"
                    /\ ReadRecords[i].answer.sw \notin {SwOk, SwRecordNotFound})
                => /\ i = Len(ReadRecords)
                   /\ outcome.kind = "err"
                   /\ outcome.status = ReadRecords[i].answer.sw

\* the children of 0xA5/0xBF0C of a decoded FCI, in wire order
FciChildren(root) ==
    LET fci == TLVValue_get_path(root.value, <<165, 48908>>)
    IN  IF root.tag = 111 /\ fci.kind = "ok" /\ fci.val.typ = "Template"
        THEN fci.val.fields ELSE <<>>

\* the PPSE was selected and its FCI holds several children under
\* 0xA5/0xBF0C, each an Application Template 0x61 with an AID and a label
SeveralApplications ==
    /\ frame.ppse /\ frame.pc = "done"
    /\ apdus[1].answer.kind = "ok" /\ apdus[1].answer.sw = SwOk
    /\ apdus[1].answer.body.kind = "ok"
    /\ LET children == FciChildren(apdus[1].answer.body.field)
       IN  /\ Len(children) >= 2
           /\ \A i \in 1..Len(children) :
               /\ children[i].tag = 97
               /\ ApplicationTemplate_try_from(
                      FieldMapOf(children[i].value.fields, frame.keeps)).kind = "ok"

\* C23: when the PPSE FCI holds several 0x61 Application Template children
\* under 0xA5/0xBF0C, application discovery returns one ApplicationTemplate
\* per child, in wire order; no child is dropped or overwritten.
C23_EveryChildInWireOrder ==
    SeveralApplications =>
        LET children == FciChildren(apdus[1].answer.body.field)
        IN  outcome = SessionOk(PSEData(<<>>,
                [i \in 1..Len(children) |->
                    ApplicationTemplate_try_from(
                        FieldMapOf(children[i].value.fields, frame.keeps)).app]))

\* what list_from_ppse does return: at most one application, and none when
\* 0xBF0C is under 0xA5 only
C23_AtMostOneApplication ==
    (frame.ppse /\ outcome.kind = "ok") => Len(outcome.value.applications) <= 1


(***************************************************************************)
(* The SDA byte stream.                                                    *)
(***************************************************************************)
\* the (entry, record) pairs of an AFL, in entry order and then ascending
\* record order, from entry number chunk on
RECURSIVE Positions(_, _)
Positions(entries, chunk) ==
    IF chunk > Len(entries) THEN <<>>
    ELSE LET first == entries[chunk][2]
             last == entries[chunk][3]
         IN  (IF first <= last
              THEN [k \in 1..(last + 1 - first) |-> <<chunk, first + k - 1>>]
              ELSE <<>>)
             \o Positions(entries, chunk + 1)

\* what the record at a position adds to the stream when the SFIs in
\* stripped lose their tag and length and those in whole keep them
Contribution(afl_fields, record, bytes, stripped, whole) ==
    IF record >= afl_fields[2] + afl_fields[4] THEN <<>>
    ELSE IF SfiOf(afl_fields) \in stripped THEN SliceFrom(bytes, read_tl(bytes).tl_len)
    ELSE IF SfiOf(afl_fields) \in whole THEN bytes
    ELSE <<>>

RECURSIVE StreamFrom(_, _, _, _, _, _)
StreamFrom(entries, pos, reads, i, stripped, whole) ==
    IF i > Len(pos) THEN <<>>
    ELSE Contribution(entries[pos[i][1]], pos[i][2], reads[i].answer.bytes, stripped, whole)
         \o StreamFrom(entries, pos, reads, i + 1, stripped, whole)

\* read_processing_options returned Ok: it read the records of the AFL in
\* order, and its stream is the one that stripped and whole give
StreamIs(stripped, whole) ==
    (frame.pc = "done" /\ outcome.kind = "ok") =>
        LET entries == chunks_exact_4(frame.afl)
            pos == Positions(entries, 1)
        IN  /\ Len(ReadRecords) = Len(pos)
            /\ \A i \in 1..Len(pos) :
                ReadRecords[i].cmd = read_record(SfiOf(entries[pos[i][1]]), pos[i][2])
            /\ outcome.value.sda_data
                   = StreamFrom(entries, pos, ReadRecords, 1, stripped, whole)

\* C25: the SDA byte stream is the concatenation, in AFL entry order and
\* then ascending record order, of the first n-sda records of each entry:
\* the response without its outer tag and length when the SFI is in 1..10,
\* the whole response when it is in 11..30, nothing for any other SFI, and
\* nothing for the records after the first n-sda.
C25_SdaStream == StreamIs(1..10, 11..30)

\* what the code does: as C25, with SFI 0 treated as 1..10
C25_SdaStreamOfTheCode == StreamIs(0..10, 11..30)

(***************************************************************************)
(* C22, C28: main.                                                         *)
(***************************************************************************)
\* the disconnects of a handle, by call or by drop, with the reset
\* disposition; and whether any disconnect was issued for it
Resets(card) ==
    {i \in 1..Len(card) : card[i].op \in {"disconnect", "drop"}
                             /\ card[i].disposition = "ResetCard"}
Disconnected(card) == \E i \in 1..Len(card) : card[i].op # "connect"

DirectoryRead(i) ==
    apdus[i].cmd.ins = 178 /\ \A j \in 2..i : apdus[j].cmd.ins # 164

\* the response to APDU i fails the step that sent it: no response, a
\* status word other than 0x9000 (a READ RECORD of the directory may also
\* be answered 0x6a83, and with lenient any status word), or bytes that do
\* not decode
FailedAt(i, lenient) ==
    LET a == apdus[i].answer
    IN  \/ a.kind = "err"
        \/ /\ a.kind = "ok" /\ a.sw # SwOk
           /\ ~(DirectoryRead(i) /\ (lenient \/ a.sw = SwRecordNotFound))
        \/ a.kind = "ok" /\ a.sw = SwOk /\ a.body.kind # "ok"

\* the commands of a get-key run come in the order SELECT of the
\* environment, READ RECORDs of the directory, SELECT of the application,
\* GET PROCESSING OPTIONS, READ RECORDs of the AFL
CommandOrder ==
    \A i \in 1..Len(apdus) :
        LET ins == apdus[i].cmd.ins
        IN  /\ i = 1 => apdus[i].cmd = select(PseName(frame.ppse))
            /\ (i > 1 /\ ins = 164) =>
                   /\ apdus[i].cmd = select(frame.aid)
                   /\ \A j \in 2..(i - 1) : apdus[j].cmd.ins = 178
            /\ ins = 168 => (i > 2 /\ apdus[i - 1].cmd.ins = 164)
            /\ (ins = 178 /\ ~DirectoryRead(i)) => apdus[i - 1].cmd.ins \in {168, 178}
            /\ ins \in {164, 168, 178}

\* the keys a get-key run has reported are those of the steps that
\* succeeded: none up to a failure of the issuer step, the issuer key
\* alone at a failure of the ICC step; the ICC step is run with the key
\* the issuer step returned
KeysReported ==
    /\ frame.step \in {"none", "list_applications", "read_processing_options"}
           => frame.printed = <<>> /\ frame.issuer_key = <<>>
    /\ frame.step = "issuer" =>
           /\ (frame.exit = "none" /\ frame.pc = "issuer") \/ frame.exit \in {"err", "panic"}
           /\ frame.printed = <<>>
    /\ frame.step = "icc" =>
           /\ frame.issuer_key = <<frame.printed[1]>>
           /\ \E recovered \in IssuerRecoveries :
                  IssuerPublicKey_from_options(RidOf(SliceTo(frame.aid, 5)),
                                               AsMap(frame.card_info), recovered)
                      = VerOk(frame.printed[1])
           /\ frame.exit = "none" => Len(frame.printed) = 1
           /\ frame.exit \in {"err", "panic"} =>
                  /\ Len(frame.printed) = 1
                  /\ \E recovered \in IccRecoveries(frame) :
                         ICCPublicKey_from_options(frame.printed[1], frame.sda_data,
                                                   AsMap(frame.card_info),
                                                   recovered).kind = frame.exit
           /\ frame.exit = "ok" =>
                  /\ Len(frame.printed) = 2
                  /\ \E recovered \in IccRecoveries(frame) :
                         ICCPublicKey_from_options(frame.printed[1], frame.sda_data,
                                                   AsMap(frame.card_info), recovered)
                             = VerOk(frame.printed[2])

\* a get-key run: the commands in order, the keys of the steps that
\* succeeded, and the failing response the last command sent
GetKeyState(lenient) ==
    frame.cmd = "GetKey" =>
        /\ CommandOrder
        /\ KeysReported
        /\ \A i \in 1..Len(apdus) : FailedAt(i, lenient) => i = Len(apdus)
        /\ (Len(apdus) > 0 /\ FailedAt(Len(apdus), lenient)) =>
               frame.pc \in {"done", "exited"} /\ frame.exit # "ok"

\* a step of a get-key run starts when the one before it has succeeded,
\* and the verifications send nothing
GetKeyStep ==
    frame.cmd = "GetKey" =>
        /\ frame'.step # frame.step =>
            \/ frame.step = "none" /\ frame'.step = "list_applications"
            \/ /\ frame.step = "list_applications"
               /\ frame'.step = "read_processing_options"
               /\ outcome.kind = "ok" /\ outcome.value.applications # <<>>
               /\ frame'.aid = outcome.value.applications[1].aid
            \/ /\ frame.step = "read_processing_options" /\ frame'.step = "issuer"
               /\ outcome.kind = "ok"
               /\ outcome.value = Options(frame'.card_info, frame'.sda_data)
            \/ /\ frame.step = "issuer" /\ frame'.step = "icc"
               /\ frame'.issuer_key # <<>>
        /\ frame.step \in {"issuer", "icc"} => apdus' = apdus
        /\ frame.exit # "none" => UNCHANGED vars

\* C28: in get-key the steps run in the order application discovery,
\* processing options (SELECT, GET PROCESSING OPTIONS, AFL record reads),
\* Issuer certificate verification, ICC certificate verification; a step
\* starts only when every earlier one succeeded; the ICC verification uses
\* the key the Issuer verification returned; after the first step that
\* fails (a status word other than 0x9000 where 0x9000 is required, a
\* decode error or a VerifyError) no further command is sent and no key is
\* reported for the failed or later steps.
C28_GetKeySteps == [][GetKeyStep]_vars /\ []GetKeyState(FALSE)

\* the same, with every status word of a READ RECORD of the directory
\* taken as list_from_pse takes it
C28_GetKeyStepsOfTheCode == [][GetKeyStep]_vars /\ []GetKeyState(TRUE)
====
